---- MODULE Spec2Model ----
\* Order-flow core of the bot: the footprint engine (ticks -> candles, CVD),
\* the per-candle analytics (value area, stacked imbalances) and the
\* strategy engine's confluence scoring.
\*
\* Numbers.  Prices and quantities are floats in the source; here a price is
\* an integer number of minimal price units, a quantity an integer number of
\* minimal lots, and the tick scale an integer number of price units, so
\* floor(price/scale)*scale is (price \div scale) * scale.  Prices and
\* quantities are strictly positive, as exchange trades are.  Ratios and scores
\* are kept exact as numerator/denominator pairs.
\* Signal weights are in tenths (1.3 is 13); a strength is an integer in
\* 0..100.
EXTENDS Integers, Sequences, FiniteSets, TLC

\* ---------------------------------------------------------------- bounds
MaxPrice == 3
MaxQty == 2
MaxBucket == 2
MaxTicks == 3
\* The long run: LongPrefix one-tick candles, then LongTail free ticks.
LongPrefix == 499
LongTail == 4
\* The longest candle list handed to RegimeDetector.analyze, and the number
\* of its calls.
MaxWindow == 5
MaxRegimeCalls == 2
MaxSweepCandles == 6
MaxSweepCalls == 2
ProfilePrefix == 286
ProfileTail == 4
MaxPipelineTicks == 4
SignalPrefix == 9
SignalTail == 3

\* Closed candles of a run that computes trade levels.
MaxLevelBars == 4
\* The longest signal list handed to evaluate.
MaxSignals == 4

\* ------------------------------------------------------ program constants
timeframe_minutes == 5
completed_maxlen == 500
cvd_maxlen == 500
PosInf == 1000000
default_imbalance_ratio == 3
default_imbalance_volume == 5
default_stacked_imbalance_min == 3
default_min_confluence_score == 65
regime_lookback == 20
regimes_maxlen == 100
swing_maxlen == 50
session_reset_every == 12
daily_reset_every == 288
exhaustion_lookback == 5
cvd_lookback == 10
all_candles_n == 30

VARIABLES
    scale,              \* FootprintEngine.scale
    imbalance_ratio,    \* FootprintEngine.imbalance_ratio
    imbalance_volume,   \* FootprintEngine.imbalance_volume
    stacked_min,        \* FootprintEngine.stacked_min
    min_score,          \* StrategyEngine.min_score
    current_candle,     \* FootprintEngine.current_candle (None or one candle)
    completed_candles,  \* FootprintEngine.completed_candles
    cumulative_delta,   \* FootprintEngine.cumulative_delta
    cvd_history,        \* FootprintEngine.cvd_history
    last_tick,          \* the tick of the last process_tick call, if any
    returned,           \* what the last process_tick call returned
    va,                 \* the last get_value_area call: None or its record
    stacks,             \* the last get_stacked_imbalances call, likewise
    signals,            \* the signal list handed to evaluate
    trade,              \* the last evaluate call: None or its result
    folded,             \* history: the ticks folded into the open candle,
                        \*   as [price, quantity, is_buyer_maker]
    closed_log,         \* history: every close so far, [candle, cvd]
    nticks,             \* history: number of process_tick calls so far
    current_regime,     \* RegimeDetector.current_regime
    _regimes,           \* RegimeDetector._regimes
    regime_window,      \* the candle list handed to RegimeDetector.analyze
    regime_ret,         \* the last RegimeDetector.analyze call: None or
                        \*   what it returned
    regime_calls,       \* history: number of RegimeDetector.analyze calls
    _swing_highs,       \* LiquiditySweepDetector._swing_highs
    _swing_lows,        \* LiquiditySweepDetector._swing_lows
    sweep_window,       \* the candle list handed to the sweep detector
    swing_arg,          \* the last update_swings call: None or its argument
    sweep_ret,          \* the last detect call: None or its arguments and
                        \*   what it returned
    sweep_fed,          \* history: number of candles put on the lists
    sweep_calls,        \* history: number of sweep detector calls
    session,            \* MultiPeriodProfile.session
    daily,              \* MultiPeriodProfile.daily
    weekly,             \* MultiPeriodProfile.weekly
    _session_candles,   \* MultiPeriodProfile._session_candles
    _daily_candles,     \* MultiPeriodProfile._daily_candles
    profile_log,        \* history: every candle handed to add_candle
    bias_ret,           \* the last get_combined_bias call: None or its
                        \*   price and what it returned
    pipelines,          \* OrderFlowBot.pipelines: symbol to pipeline
    streams,            \* history: the ticks of each symbol so far
    analyzed            \* the last SignalDetector.analyze call: None or its
                        \*   candle and its outcome

config == <<scale, imbalance_ratio, imbalance_volume, stacked_min, min_score>>

\* The footprint engine, its analytics and the strategy call.
core_vars == <<current_candle, completed_candles, cumulative_delta,
               cvd_history, last_tick, returned, va, stacks, signals, trade,
               folded, closed_log, nticks>>

regime_vars == <<current_regime, _regimes, regime_window, regime_ret,
                 regime_calls>>

sweep_vars == <<_swing_highs, _swing_lows, sweep_window, swing_arg,
                sweep_ret, sweep_fed, sweep_calls>>

profile_vars == <<session, daily, weekly, _session_candles, _daily_candles,
                  profile_log, bias_ret>>

pipeline_vars == <<pipelines, streams>>

detector_vars == <<analyzed>>

\* The pipeline's other components, and all but one of them.
components == <<regime_vars, sweep_vars, profile_vars, pipeline_vars,
                detector_vars>>
not_regime == <<sweep_vars, profile_vars, pipeline_vars, detector_vars>>
not_sweep == <<regime_vars, profile_vars, pipeline_vars, detector_vars>>
not_profile == <<regime_vars, sweep_vars, pipeline_vars, detector_vars>>
not_pipelines == <<regime_vars, sweep_vars, profile_vars, detector_vars>>
not_detectors == <<regime_vars, sweep_vars, profile_vars, pipeline_vars>>

vars == <<config, current_candle, completed_candles, cumulative_delta,
          cvd_history, last_tick, returned, va, stacks, signals, trade, folded,
          closed_log, nticks, components>>

\* Optional values: None is the empty sequence, Some(x) a one-element one.
None == <<>>
Some(x) == <<x>>

Max2(a, b) == IF a >= b THEN a ELSE b
Min2(a, b) == IF a <= b THEN a ELSE b

\* ------------------------------------------------------------- models.py
is_buy(tick) == ~tick.is_buyer_maker

FootprintLevel(price) ==
    [price |-> price, bid_volume |-> 0, ask_volume |-> 0, trades |-> 0]

level_delta(level) == level.ask_volume - level.bid_volume

level_total_volume(level) == level.bid_volume + level.ask_volume

FootprintCandle(timestamp, open) ==
    [timestamp |-> timestamp, open |-> open, high |-> 0, low |-> PosInf,
     close |-> 0, levels |-> <<>>, total_bid |-> 0, total_ask |-> 0,
     total_trades |-> 0]

\* Mutant of candle_delta: the operands swapped.
candle_delta_swapped(candle) == candle.total_bid - candle.total_ask

candle_delta(candle) == candle.total_ask - candle.total_bid

candle_total_volume(candle) == candle.total_bid + candle.total_ask

\* max(self.levels.values(), key=total_volume): the first of the largest
\* levels in the dict's order, which is the order the levels were created in.
poc(candle) ==
    IF candle.levels = <<>> THEN candle.close
    ELSE LET levels == candle.levels
             first_max ==
                 CHOOSE i \in 1..Len(levels) :
                     /\ \A j \in 1..Len(levels) :
                            level_total_volume(levels[j])
                                <= level_total_volume(levels[i])
                     /\ \A j \in 1..(i - 1) :
                            level_total_volume(levels[j])
                                < level_total_volume(levels[i])
         IN  levels[first_max].price

\* A ratio as numerator over denominator; float("inf") is 1 over 0.
level_imbalance_ratio(level) ==
    IF level.bid_volume = 0
    THEN (IF level.ask_volume > 0 THEN [num |-> 1, den |-> 0]
          ELSE [num |-> 0, den |-> 1])
    ELSE [num |-> level.ask_volume, den |-> level.bid_volume]

level_reverse_imbalance_ratio(level) ==
    IF level.ask_volume = 0
    THEN (IF level.bid_volume > 0 THEN [num |-> 1, den |-> 0]
          ELSE [num |-> 0, den |-> 1])
    ELSE [num |-> level.bid_volume, den |-> level.ask_volume]

\* ratio >= threshold, for a ratio as above and a finite threshold.
ratio_ge(ratio, threshold) ==
    IF ratio.den = 0 THEN TRUE ELSE ratio.num >= threshold * ratio.den

RECURSIVE insert_by_volume_desc(_, _)
\* One step of the stable sort by falling total volume: `level` goes after
\* every entry whose volume is not smaller.
insert_by_volume_desc(sorted, level) ==
    IF sorted = <<>> THEN <<level>>
    ELSE IF level_total_volume(Head(sorted)) >= level_total_volume(level)
         THEN <<Head(sorted)>> \o insert_by_volume_desc(Tail(sorted), level)
         ELSE <<level>> \o sorted

RECURSIVE sorted_by_volume_desc(_)
\* sorted(levels.values(), key=total_volume, reverse=True): a stable sort,
\* levels of equal volume stay in insertion order.
sorted_by_volume_desc(levels) ==
    IF levels = <<>> THEN <<>>
    ELSE insert_by_volume_desc(
             sorted_by_volume_desc(SubSeq(levels, 1, Len(levels) - 1)),
             levels[Len(levels)])

RECURSIVE va_accumulate_one_short(_, _, _, _)
\* Mutant of va_accumulate: the loop never takes the last level.
va_accumulate_one_short(rest, accumulated, included_prices, target100) ==
    IF Len(rest) <= 1 \/ accumulated * 100 >= target100
    THEN included_prices
    ELSE va_accumulate_one_short(Tail(rest),
             accumulated + level_total_volume(Head(rest)),
             Append(included_prices, Head(rest).price), target100)

RECURSIVE va_accumulate(_, _, _, _)
\* The loop of get_value_area over sorted_levels[1:]; target100 is a hundred
\* times target_volume, pct being in percent.
va_accumulate(rest, accumulated, included_prices, target100) ==
    IF rest = <<>> \/ accumulated * 100 >= target100
    THEN included_prices
    ELSE va_accumulate(Tail(rest),
             accumulated + level_total_volume(Head(rest)),
             Append(included_prices, Head(rest).price), target100)

SeqMax(seq) == CHOOSE x \in {seq[i] : i \in 1..Len(seq)} :
                   \A j \in 1..Len(seq) : seq[j] <= x

SeqMin(seq) == CHOOSE x \in {seq[i] : i \in 1..Len(seq)} :
                   \A j \in 1..Len(seq) : x <= seq[j]

\* pct is in percent (the default 0.70 is 70).  The result carries the
\* local included_prices beside the ValueArea's four fields.
get_value_area(candle, pct) ==
    IF candle.levels = <<>>
    THEN [high |-> candle.close, low |-> candle.close, poc |-> candle.close,
          volume_at_poc |-> 0, included_prices |-> <<>>]
    ELSE LET sorted_levels == sorted_by_volume_desc(candle.levels)
             poc_level == sorted_levels[1]
             included_prices ==
                 va_accumulate(Tail(sorted_levels),
                               level_total_volume(poc_level),
                               <<poc_level.price>>,
                               candle_total_volume(candle) * pct)
         IN  [high |-> SeqMax(included_prices),
              low |-> SeqMin(included_prices),
              poc |-> poc_level.price,
              volume_at_poc |-> level_total_volume(poc_level),
              included_prices |-> included_prices]

\* ---------------------------------------------------- footprint_engine.py
candle_ms == timeframe_minutes * 60 * 1000

\* Mutant of _price_to_level: rounds to the nearest level instead of down.
_price_to_level_nearest(price) == ((2 * price + scale) \div (2 * scale)) * scale

_price_to_level(price) == (price \div scale) * scale

_candle_start(timestamp) == (timestamp \div candle_ms) * candle_ms

\* Mutant of deque_append: a full deque evicts at the right end, the newest.
deque_append_evict_newest(d, x, maxlen) ==
    IF Len(d) >= maxlen THEN Append(SubSeq(d, 1, Len(d) - 1), x)
    ELSE Append(d, x)

\* collections.deque(maxlen=n).append
deque_append(d, x, maxlen) ==
    IF Len(d) >= maxlen THEN Append(Tail(d), x) ELSE Append(d, x)

\* candle.levels is a dict: unique keys, iteration in insertion order.
HasLevel(levels, price) == \E i \in 1..Len(levels) : levels[i].price = price

LevelIndex(levels, price) ==
    CHOOSE i \in 1..Len(levels) : levels[i].price = price

\* Mutant of _add_tick_to_candle: the level is created on every tick, so a
\* second trade at a price starts the level over.
_add_tick_to_candle_level_renewed(candle, tick) ==
    LET level_price == _price_to_level(tick.price)
        levels1 == IF HasLevel(candle.levels, level_price)
                   THEN [candle.levels EXCEPT
                            ![LevelIndex(candle.levels, level_price)] =
                                FootprintLevel(level_price)]
                   ELSE Append(candle.levels, FootprintLevel(level_price))
        i == LevelIndex(levels1, level_price)
        level1 == [levels1[i] EXCEPT !.trades = @ + 1]
        level2 == IF is_buy(tick)
                  THEN [level1 EXCEPT !.ask_volume = @ + tick.quantity]
                  ELSE [level1 EXCEPT !.bid_volume = @ + tick.quantity]
    IN  [candle EXCEPT
            !.levels = [levels1 EXCEPT ![i] = level2],
            !.total_ask = IF is_buy(tick) THEN @ + tick.quantity ELSE @,
            !.total_bid = IF is_buy(tick) THEN @ ELSE @ + tick.quantity,
            !.total_trades = @ + 1,
            !.close = tick.price,
            !.high = IF tick.price > @ THEN tick.price ELSE @,
            !.low = IF tick.price < @ THEN tick.price ELSE @]

_add_tick_to_candle(candle, tick) ==
    LET level_price == _price_to_level(tick.price)
        levels1 == IF HasLevel(candle.levels, level_price)
                   THEN candle.levels
                   ELSE Append(candle.levels, FootprintLevel(level_price))
        i == LevelIndex(levels1, level_price)
        level1 == [levels1[i] EXCEPT !.trades = @ + 1]
        level2 == IF is_buy(tick)
                  THEN [level1 EXCEPT !.ask_volume = @ + tick.quantity]
                  ELSE [level1 EXCEPT !.bid_volume = @ + tick.quantity]
    IN  [candle EXCEPT
            !.levels = [levels1 EXCEPT ![i] = level2],
            !.total_ask = IF is_buy(tick) THEN @ + tick.quantity ELSE @,
            !.total_bid = IF is_buy(tick) THEN @ ELSE @ + tick.quantity,
            !.total_trades = @ + 1,
            !.close = tick.price,
            !.high = IF tick.price > @ THEN tick.price ELSE @,
            !.low = IF tick.price < @ THEN tick.price ELSE @]

\* The engine as a value: the four fields process_tick reads and writes.
Engine(cur, done, cd, cvd) ==
    [current_candle |-> cur, completed_candles |-> done,
     cumulative_delta |-> cd, cvd_history |-> cvd]

\* Mutant of _close_candle: the cumulative delta is recomputed from the
\* candles the history still holds.
_close_candle_recomputed(fp) ==
    LET candle == fp.current_candle[1]
        kept == deque_append(fp.completed_candles, candle, completed_maxlen)
        cd == fp.cumulative_delta + candle_delta(candle)
                - IF Len(fp.completed_candles) >= completed_maxlen
                  THEN candle_delta(fp.completed_candles[1]) ELSE 0
    IN  [fp |-> [fp EXCEPT
                    !.cumulative_delta = cd,
                    !.cvd_history = deque_append(@, cd, cvd_maxlen),
                    !.completed_candles = kept],
         ret |-> candle]

\* Returns the engine after the close and the closed candle.
_close_candle(fp) ==
    LET candle == fp.current_candle[1]
        cd == fp.cumulative_delta + candle_delta(candle)
    IN  [fp |-> [fp EXCEPT
                    !.cumulative_delta = cd,
                    !.cvd_history = deque_append(@, cd, cvd_maxlen),
                    !.completed_candles =
                        deque_append(@, candle, completed_maxlen)],
         ret |-> candle]

\* Mutant of process_tick: the tick is folded before the boundary test, so
\* the closing tick lands in the candle that is returned.
process_tick_fold_first(fp, tick) ==
    LET candle_ts == _candle_start(tick.timestamp)
        fresh == Some(FootprintCandle(candle_ts, tick.price))
        fp0 == IF fp.current_candle = None
               THEN [fp EXCEPT !.current_candle = fresh]
               ELSE fp
        fp1 == [fp0 EXCEPT !.current_candle =
                   Some(_add_tick_to_candle(fp0.current_candle[1], tick))]
        closed == _close_candle(fp1)
    IN  IF fp.current_candle # None
           /\ candle_ts > fp.current_candle[1].timestamp
        THEN [fp |-> [closed.fp EXCEPT !.current_candle = fresh],
              ret |-> Some(closed.ret)]
        ELSE [fp |-> fp1, ret |-> None]

\* Mutant of process_tick: a candle opened by a close is seeded with the
\* previous candle's close instead of the tick's price.
process_tick_open_prev_close(fp, tick) ==
    LET candle_ts == _candle_start(tick.timestamp)
        closes == fp.current_candle # None
                  /\ candle_ts > fp.current_candle[1].timestamp
        closed == _close_candle(fp)
        fp1 == IF fp.current_candle = None
               THEN [fp EXCEPT !.current_candle =
                        Some(FootprintCandle(candle_ts, tick.price))]
               ELSE IF closes
                    THEN [closed.fp EXCEPT !.current_candle =
                             Some(FootprintCandle(candle_ts,
                                                  closed.ret.close))]
                    ELSE fp
    IN  [fp |-> [fp1 EXCEPT !.current_candle =
                    Some(_add_tick_to_candle(fp1.current_candle[1], tick))],
         ret |-> IF closes THEN Some(closed.ret) ELSE None]

\* Mutant of process_tick: a tick of any other bucket than the open one,
\* an earlier one too, closes the candle.
process_tick_other_bucket_closes(fp, tick) ==
    LET candle_ts == _candle_start(tick.timestamp)
        fresh == Some(FootprintCandle(candle_ts, tick.price))
        closed == _close_candle(fp)
        fp1 == IF fp.current_candle = None
               THEN [fp EXCEPT !.current_candle = fresh]
               ELSE IF candle_ts # fp.current_candle[1].timestamp
                    THEN [closed.fp EXCEPT !.current_candle = fresh]
                    ELSE fp
        completed == IF fp.current_candle # None
                        /\ candle_ts # fp.current_candle[1].timestamp
                     THEN Some(closed.ret)
                     ELSE None
    IN  [fp |-> [fp1 EXCEPT !.current_candle =
                    Some(_add_tick_to_candle(fp1.current_candle[1], tick))],
         ret |-> completed]

\* Returns the engine after the call and the call's result.
process_tick(fp, tick) ==
    LET candle_ts == _candle_start(tick.timestamp)
        fresh == Some(FootprintCandle(candle_ts, tick.price))
        closed == _close_candle(fp)
        fp1 == IF fp.current_candle = None
               THEN [fp EXCEPT !.current_candle = fresh]
               ELSE IF candle_ts > fp.current_candle[1].timestamp
                    THEN [closed.fp EXCEPT !.current_candle = fresh]
                    ELSE fp
        completed == IF fp.current_candle # None
                        /\ candle_ts > fp.current_candle[1].timestamp
                     THEN Some(closed.ret)
                     ELSE None
    IN  [fp |-> [fp1 EXCEPT !.current_candle =
                    Some(_add_tick_to_candle(fp1.current_candle[1], tick))],
         ret |-> completed]

RECURSIVE insert_by_price(_, _)
insert_by_price(sorted, level) ==
    IF sorted = <<>> THEN <<level>>
    ELSE IF Head(sorted).price <= level.price
         THEN <<Head(sorted)>> \o insert_by_price(Tail(sorted), level)
         ELSE <<level>> \o sorted

RECURSIVE sorted_by_price(_)
\* The levels in the order of sorted(candle.levels.keys()).
sorted_by_price(levels) ==
    IF levels = <<>> THEN <<>>
    ELSE insert_by_price(sorted_by_price(SubSeq(levels, 1, Len(levels) - 1)),
                         levels[Len(levels)])

\* if len(current) >= self.stacked_min: stacks.append(list(current))
flush_stack(found, current) ==
    IF Len(current) >= stacked_min THEN Append(found, current) ELSE found

\* Mutant of stack_step: a level below the volume threshold flushes the
\* pending runs and does not clear them.
stack_step_no_reset(st, level) ==
    IF level_total_volume(level) < imbalance_volume
    THEN [st EXCEPT
            !.buy_stacks = flush_stack(@, st.current_buy),
            !.sell_stacks = flush_stack(@, st.current_sell)]
    ELSE LET buys == ratio_ge(level_imbalance_ratio(level), imbalance_ratio)
             sells == ratio_ge(level_reverse_imbalance_ratio(level),
                               imbalance_ratio)
         IN  [buy_stacks |-> IF buys THEN st.buy_stacks
                             ELSE flush_stack(st.buy_stacks, st.current_buy),
              current_buy |-> IF buys THEN Append(st.current_buy, level.price)
                              ELSE <<>>,
              sell_stacks |-> IF sells THEN st.sell_stacks
                              ELSE flush_stack(st.sell_stacks,
                                               st.current_sell),
              current_sell |-> IF sells
                               THEN Append(st.current_sell, level.price)
                               ELSE <<>>]

\* The body of get_stacked_imbalances' loop, for one level.
\* Mutant of stack_step: a level that fails the buy ratio ends the pending
\* sell run too.
stack_step_buy_failure_ends_both(st, level) ==
    IF level_total_volume(level) < imbalance_volume
    THEN [buy_stacks |-> flush_stack(st.buy_stacks, st.current_buy),
          sell_stacks |-> flush_stack(st.sell_stacks, st.current_sell),
          current_buy |-> <<>>,
          current_sell |-> <<>>]
    ELSE LET buys == ratio_ge(level_imbalance_ratio(level), imbalance_ratio)
             sells == ratio_ge(level_reverse_imbalance_ratio(level),
                               imbalance_ratio)
             pending == IF buys THEN st.current_sell ELSE <<>>
             flushed == IF buys THEN st.sell_stacks
                        ELSE flush_stack(st.sell_stacks, st.current_sell)
         IN  [buy_stacks |-> IF buys THEN st.buy_stacks
                             ELSE flush_stack(st.buy_stacks, st.current_buy),
              current_buy |-> IF buys THEN Append(st.current_buy, level.price)
                              ELSE <<>>,
              sell_stacks |-> IF sells THEN flushed
                              ELSE flush_stack(flushed, pending),
              current_sell |-> IF sells THEN Append(pending, level.price)
                               ELSE <<>>]

stack_step(st, level) ==
    IF level_total_volume(level) < imbalance_volume
    THEN [buy_stacks |-> flush_stack(st.buy_stacks, st.current_buy),
          sell_stacks |-> flush_stack(st.sell_stacks, st.current_sell),
          current_buy |-> <<>>,
          current_sell |-> <<>>]
    ELSE LET buys == ratio_ge(level_imbalance_ratio(level), imbalance_ratio)
             sells == ratio_ge(level_reverse_imbalance_ratio(level),
                               imbalance_ratio)
         IN  [buy_stacks |-> IF buys THEN st.buy_stacks
                             ELSE flush_stack(st.buy_stacks, st.current_buy),
              current_buy |-> IF buys THEN Append(st.current_buy, level.price)
                              ELSE <<>>,
              sell_stacks |-> IF sells THEN st.sell_stacks
                              ELSE flush_stack(st.sell_stacks,
                                               st.current_sell),
              current_sell |-> IF sells
                               THEN Append(st.current_sell, level.price)
                               ELSE <<>>]

RECURSIVE stack_scan(_, _)
stack_scan(st, levels) ==
    IF levels = <<>> THEN st
    ELSE stack_scan(stack_step(st, Head(levels)), Tail(levels))

get_stacked_imbalances(candle) ==
    LET st == stack_scan([buy_stacks |-> <<>>, sell_stacks |-> <<>>,
                          current_buy |-> <<>>, current_sell |-> <<>>],
                         sorted_by_price(candle.levels))
    IN  [buy |-> flush_stack(st.buy_stacks, st.current_buy),
         sell |-> flush_stack(st.sell_stacks, st.current_sell)]

\* ------------------------------------------------- models.py: the signals
STACKED_IMBALANCE_BUY == "stacked_imbalance_buy"
STACKED_IMBALANCE_SELL == "stacked_imbalance_sell"
DELTA_DIVERGENCE_BULL == "delta_divergence_bull"
DELTA_DIVERGENCE_BEAR == "delta_divergence_bear"
ABSORPTION_SUPPORT == "absorption_support"
ABSORPTION_RESISTANCE == "absorption_resistance"
EXHAUSTION_BULL == "exhaustion_bull"
EXHAUSTION_BEAR == "exhaustion_bear"
CVD_CONFIRMS_UP == "cvd_confirms_up"
CVD_CONFIRMS_DOWN == "cvd_confirms_down"
POC_MAGNET_LONG == "poc_magnet_long"
POC_MAGNET_SHORT == "poc_magnet_short"

BUY == "buy"
SELL == "sell"

REVERSAL == "reversal"
BREAKOUT == "breakout"
POC_REVERSION == "poc_reversion"

\* The fields of an OrderFlowSignal that evaluate reads.
OrderFlowSignal(type, strength) == [type |-> type, strength |-> strength]

\* ------------------------------------------------------ strategy_engine.py
BULLISH_SIGNALS ==
    {STACKED_IMBALANCE_BUY, DELTA_DIVERGENCE_BULL, ABSORPTION_SUPPORT,
     EXHAUSTION_BEAR, CVD_CONFIRMS_UP, POC_MAGNET_LONG}

BEARISH_SIGNALS ==
    {STACKED_IMBALANCE_SELL, DELTA_DIVERGENCE_BEAR, ABSORPTION_RESISTANCE,
     EXHAUSTION_BULL, CVD_CONFIRMS_DOWN, POC_MAGNET_SHORT}

\* In tenths.
SIGNAL_WEIGHTS ==
    (STACKED_IMBALANCE_BUY :> 13) @@ (STACKED_IMBALANCE_SELL :> 13)
    @@ (DELTA_DIVERGENCE_BULL :> 12) @@ (DELTA_DIVERGENCE_BEAR :> 12)
    @@ (ABSORPTION_SUPPORT :> 11) @@ (ABSORPTION_RESISTANCE :> 11)
    @@ (EXHAUSTION_BULL :> 10) @@ (EXHAUSTION_BEAR :> 10)
    @@ (CVD_CONFIRMS_UP :> 8) @@ (CVD_CONFIRMS_DOWN :> 8)
    @@ (POC_MAGNET_LONG :> 7) @@ (POC_MAGNET_SHORT :> 7)

\* max(SIGNAL_WEIGHTS.values()), in tenths.
max_weight ==
    CHOOSE w \in {SIGNAL_WEIGHTS[t] : t \in DOMAIN SIGNAL_WEIGHTS} :
        \A t \in DOMAIN SIGNAL_WEIGHTS : SIGNAL_WEIGHTS[t] <= w

\* [s for s in signals if s.type in valid_types]
relevant_signals(sigs, valid_types) ==
    LET keep(s) == s.type \in valid_types
    IN  SelectSeq(sigs, keep)

RECURSIVE weighted_sum(_)
\* sum(s.strength * SIGNAL_WEIGHTS[s.type] for s in relevant), in tenths.
weighted_sum(relevant) ==
    IF relevant = <<>> THEN 0
    ELSE Head(relevant).strength * SIGNAL_WEIGHTS[Head(relevant).type]
         + weighted_sum(Tail(relevant))

\* A score as numerator over denominator; 0.0 is 0 over 1.
score_zero == [num |-> 0, den |-> 1]

\* score >= threshold, for an integer threshold.
score_ge(score, threshold) == score.num >= threshold * score.den

score_gt(a, b) == a.num * b.den > b.num * a.den

\* (avg_weighted / max_single) * 70 + confluence_bonus, capped at 100:
\* avg_weighted is weighted_sum / len(relevant) and max_single is
\* 100 * max_weight, so over the denominator 100 * max_weight * len(relevant)
\* the base score is 70 * weighted_sum.
capped_score(relevant, confluence_bonus) ==
    LET den == 100 * max_weight * Len(relevant)
        num == 70 * weighted_sum(relevant) + confluence_bonus * den
    IN  [num |-> Min2(num, 100 * den), den |-> den]

\* Mutant of _compute_directional_score: no check of the distinct types.
_compute_directional_score_any_types(sigs, valid_types) ==
    LET relevant == relevant_signals(sigs, valid_types)
        unique_types ==
            Cardinality({relevant[i].type : i \in 1..Len(relevant)})
    IN  IF Len(relevant) < 2 THEN score_zero
        ELSE capped_score(relevant, Min2((unique_types - 1) * 12, 30))

\* Mutant of _compute_directional_score: the bonus counts every type.
_compute_directional_score_bonus_per_type(sigs, valid_types) ==
    LET relevant == relevant_signals(sigs, valid_types)
        unique_types ==
            Cardinality({relevant[i].type : i \in 1..Len(relevant)})
    IN  IF Len(relevant) < 2 THEN score_zero
        ELSE IF unique_types < 2 THEN score_zero
        ELSE capped_score(relevant, Min2(unique_types * 12, 30))

_compute_directional_score(sigs, valid_types) ==
    LET relevant == relevant_signals(sigs, valid_types)
        unique_types ==
            Cardinality({relevant[i].type : i \in 1..Len(relevant)})
    IN  IF Len(relevant) < 2 THEN score_zero
        ELSE IF unique_types < 2 THEN score_zero
        ELSE capped_score(relevant, Min2((unique_types - 1) * 12, 30))

\* Mutant of _classify_strategy: only the signals of the trade's side count.
_classify_strategy_of_side(sigs, side) ==
    LET of_side == relevant_signals(sigs, IF side = BUY THEN BULLISH_SIGNALS
                                          ELSE BEARISH_SIGNALS)
        types == {of_side[i].type : i \in 1..Len(of_side)}
        has_absorption ==
            ABSORPTION_SUPPORT \in types \/ ABSORPTION_RESISTANCE \in types
        has_divergence ==
            DELTA_DIVERGENCE_BULL \in types \/ DELTA_DIVERGENCE_BEAR \in types
        has_exhaustion ==
            EXHAUSTION_BULL \in types \/ EXHAUSTION_BEAR \in types
        has_imbalance ==
            STACKED_IMBALANCE_BUY \in types \/ STACKED_IMBALANCE_SELL \in types
        has_cvd == CVD_CONFIRMS_UP \in types \/ CVD_CONFIRMS_DOWN \in types
        has_poc == POC_MAGNET_LONG \in types \/ POC_MAGNET_SHORT \in types
    IN  IF has_absorption \/ has_divergence \/ has_exhaustion THEN REVERSAL
        ELSE IF has_imbalance /\ (has_cvd \/ has_poc) THEN REVERSAL
        ELSE IF has_imbalance THEN BREAKOUT
        ELSE IF has_poc THEN POC_REVERSION
        ELSE REVERSAL

\* Mutant of _classify_strategy: an imbalance is a breakout whatever confirms
\* it.
_classify_strategy_imbalance_is_breakout(sigs, side) ==
    LET types == {sigs[i].type : i \in 1..Len(sigs)}
        has_absorption ==
            ABSORPTION_SUPPORT \in types \/ ABSORPTION_RESISTANCE \in types
        has_divergence ==
            DELTA_DIVERGENCE_BULL \in types \/ DELTA_DIVERGENCE_BEAR \in types
        has_exhaustion ==
            EXHAUSTION_BULL \in types \/ EXHAUSTION_BEAR \in types
        has_imbalance ==
            STACKED_IMBALANCE_BUY \in types \/ STACKED_IMBALANCE_SELL \in types
        has_poc == POC_MAGNET_LONG \in types \/ POC_MAGNET_SHORT \in types
    IN  IF has_absorption \/ has_divergence \/ has_exhaustion THEN REVERSAL
        ELSE IF has_imbalance THEN BREAKOUT
        ELSE IF has_poc THEN POC_REVERSION
        ELSE REVERSAL

_classify_strategy(sigs, side) ==
    LET types == {sigs[i].type : i \in 1..Len(sigs)}
        has_absorption ==
            ABSORPTION_SUPPORT \in types \/ ABSORPTION_RESISTANCE \in types
        has_divergence ==
            DELTA_DIVERGENCE_BULL \in types \/ DELTA_DIVERGENCE_BEAR \in types
        has_exhaustion ==
            EXHAUSTION_BULL \in types \/ EXHAUSTION_BEAR \in types
        has_imbalance ==
            STACKED_IMBALANCE_BUY \in types \/ STACKED_IMBALANCE_SELL \in types
        has_cvd == CVD_CONFIRMS_UP \in types \/ CVD_CONFIRMS_DOWN \in types
        has_poc == POC_MAGNET_LONG \in types \/ POC_MAGNET_SHORT \in types
    IN  IF has_absorption \/ has_divergence \/ has_exhaustion THEN REVERSAL
        ELSE IF has_imbalance /\ (has_cvd \/ has_poc) THEN REVERSAL
        ELSE IF has_imbalance THEN BREAKOUT
        ELSE IF has_poc THEN POC_REVERSION
        ELSE REVERSAL

\* ------------------------------------------------------ regime_detector.py
TRENDING_UP == "trending_up"
TRENDING_DOWN == "trending_down"
RANGING == "ranging"
VOLATILE == "volatile"
LOW_VOLUME == "low_volume"

\* size_mult in tenths; a favor of None is None.
REGIME_STRATEGY_MAP ==
    (TRENDING_UP :> [favor |-> Some(BREAKOUT), avoid |-> POC_REVERSION,
                     size_mult |-> 10])
    @@ (TRENDING_DOWN :> [favor |-> Some(BREAKOUT), avoid |-> POC_REVERSION,
                          size_mult |-> 10])
    @@ (RANGING :> [favor |-> Some(POC_REVERSION), avoid |-> BREAKOUT,
                    size_mult |-> 8])
    @@ (VOLATILE :> [favor |-> Some(REVERSAL), avoid |-> BREAKOUT,
                     size_mult |-> 5])
    @@ (LOW_VOLUME :> [favor |-> None, avoid |-> "all", size_mult |-> 0])

\* seq[-n:] for n >= 1.
last_n(seq, n) ==
    IF Len(seq) <= n THEN seq ELSE SubSeq(seq, Len(seq) - n + 1, Len(seq))

RECURSIVE GCD(_, _)
GCD(a, b) == IF b = 0 THEN a ELSE GCD(b, a % b)

LCM(a, b) == (a \div GCD(a, b)) * b

RECURSIVE lcm_of(_)
lcm_of(numbers) ==
    IF numbers = {} THEN 1
    ELSE LET x == CHOOSE y \in numbers : TRUE
         IN  LCM(x, lcm_of(numbers \ {x}))

RECURSIVE sum_over(_, _)
\* The sum of f[i] over the indexes i of `indexes`.
sum_over(f, indexes) ==
    IF indexes = {} THEN 0
    ELSE LET i == CHOOSE j \in indexes : TRUE
         IN  f[i] + sum_over(f, indexes \ {i})

\* The standard deviation of the close-to-close returns, as the pair
\* (sq_num, root_den) standing for sqrt(sq_num) / root_den: with the returns
\* over one denominator den, r[i] = num[i] / den, their variance is
\* (k * sum(num^2) - sum(num)^2) / (k * den)^2.
_calc_volatility(candles) ==
    IF Len(candles) < 2 THEN [sq_num |-> 0, root_den |-> 1]
    ELSE LET with_return == {i \in 2..Len(candles) : candles[i - 1].close > 0}
             den == lcm_of({candles[i - 1].close : i \in with_return})
             num == [i \in with_return |->
                        (candles[i].close - candles[i - 1].close)
                            * (den \div candles[i - 1].close)]
             squares == [i \in with_return |-> num[i] * num[i]]
             k == Cardinality(with_return)
             total == sum_over(num, with_return)
         IN  IF with_return = {} THEN [sq_num |-> 0, root_den |-> 1]
             ELSE [sq_num |-> k * sum_over(squares, with_return)
                                  - total * total,
                   root_den |-> k * den]

\* volatility > num / den, for positive num and den: both sides squared,
\* the fraction num * root_den / den in lowest terms.
volatility_gt(volatility, num, den) ==
    LET g == GCD(num * volatility.root_den, den)
        a == (num * volatility.root_den) \div g
        b == den \div g
    IN  volatility.sq_num * b * b > a * a

\* slope / y_mean as a fraction of positive denominator.  With
\* x2[i] = 2 * (i - x_mean) and y[i] = n * (closes[i] - y_mean), numerator is
\* sum(x2 * y) / (2n) and denominator sum(x2^2) / 4, so the slope over
\* y_mean = total / n is 2 * sum(x2 * y) / (sum(x2^2) * total).
_calc_trend_strength(candles) ==
    IF Len(candles) < 5 THEN [num |-> 0, den |-> 1]
    ELSE LET n == Len(candles)
             total == sum_over([i \in 1..n |-> candles[i].close], 1..n)
             x2 == [i \in 1..n |-> 2 * (i - 1) - (n - 1)]
             xy == [i \in 1..n |-> x2[i] * (n * candles[i].close - total)]
             xx == [i \in 1..n |-> x2[i] * x2[i]]
             numerator == sum_over(xy, 1..n)
             denominator == sum_over(xx, 1..n)
         IN  IF denominator = 0 \/ total = 0 THEN [num |-> 0, den |-> 1]
             ELSE IF total > 0
                  THEN [num |-> 2 * numerator, den |-> denominator * total]
                  ELSE [num |-> 0 - 2 * numerator,
                        den |-> 0 - denominator * total]

\* recent_avg / avg_vol as a fraction, 1.0 as 1 over 1.
_calc_volume_health(candles) ==
    IF Len(candles) < 3 THEN [num |-> 1, den |-> 1]
    ELSE LET n == Len(candles)
             volumes == [i \in 1..n |-> candle_total_volume(candles[i])]
             total == sum_over(volumes, 1..n)
             recent == sum_over(volumes, (n - 2)..n)
         IN  IF total > 0 THEN [num |-> n * recent, den |-> 3 * total]
             ELSE [num |-> 1, den |-> 1]

\* Mutant of _classify: the volatility is looked at before the volume.
_classify_volatility_first(volatility, trend, vol_health, candles) ==
    IF volatility_gt(volatility, 8, 1000) THEN VOLATILE
    ELSE IF vol_health.num * 10 < 3 * vol_health.den THEN LOW_VOLUME
    ELSE IF trend.num * 10000 > 5 * trend.den THEN TRENDING_UP
    ELSE IF (0 - trend.num) * 10000 > 5 * trend.den THEN TRENDING_DOWN
    ELSE RANGING

\* The thresholds 0.3, 0.008 and 0.0005 are 3/10, 8/1000 and 5/10000.
_classify(volatility, trend, vol_health, candles) ==
    IF vol_health.num * 10 < 3 * vol_health.den THEN LOW_VOLUME
    ELSE IF volatility_gt(volatility, 8, 1000) THEN VOLATILE
    ELSE IF trend.num * 10000 > 5 * trend.den THEN TRENDING_UP
    ELSE IF (0 - trend.num) * 10000 > 5 * trend.den THEN TRENDING_DOWN
    ELSE RANGING

RegimeDetector(regime, regimes) ==
    [current_regime |-> regime, _regimes |-> regimes]

\* RegimeDetector.analyze: the detector after the call and what the call
\* returns.
regime_analyze(rd, candles) ==
    IF Len(candles) < 5 THEN [rd |-> rd, ret |-> RANGING]
    ELSE LET recent == last_n(candles, Min2(regime_lookback, Len(candles)))
             regime == _classify(_calc_volatility(recent),
                                 _calc_trend_strength(recent),
                                 _calc_volume_health(recent), recent)
         IN  [rd |-> RegimeDetector(regime,
                         deque_append(rd._regimes, regime, regimes_maxlen)),
              ret |-> regime]

get_strategy_guidance(rd) == REGIME_STRATEGY_MAP[rd.current_regime]

should_trade(rd) == get_strategy_guidance(rd).size_mult > 0

\* ------------------------------------------------------ liquidity_sweep.py
BEAR_STOP_HUNT == "stop_hunt_bear"
BULL_STOP_HUNT == "stop_hunt_bull"

\* min_sweep_pct = 0.05, as a fraction.
min_sweep_pct == [num |-> 5, den |-> 100]

\* A fraction in lowest terms, its denominator positive.
Fraction(num, den) ==
    LET g == GCD(IF num < 0 THEN 0 - num ELSE num, den)
    IN  [num |-> num \div g, den |-> den \div g]

\* The detector as a value: its two deques.
LiquiditySweepDetector(swing_highs, swing_lows) ==
    [_swing_highs |-> swing_highs, _swing_lows |-> swing_lows]

\* candles[i] (1-based) is strictly above, or strictly below, the two
\* candles on each side of it.
is_swing_high(candles, i) ==
    /\ candles[i].high > candles[i - 1].high
    /\ candles[i].high > candles[i - 2].high
    /\ candles[i].high > candles[i + 1].high
    /\ candles[i].high > candles[i + 2].high

is_swing_low(candles, i) ==
    /\ candles[i].low < candles[i - 1].low
    /\ candles[i].low < candles[i - 2].low
    /\ candles[i].low < candles[i + 1].low
    /\ candles[i].low < candles[i + 2].low

\* The loop's positions, range(2, len(candles) - 2), 1-based.
swing_positions(candles) == [k \in 1..(Len(candles) - 4) |-> k + 2]

\* The detector after update_swings(candles); index is the 0-based position.
update_swings(ls, candles) ==
    IF Len(candles) < 5 THEN ls
    ELSE LET positions == swing_positions(candles)
             high_at == SelectSeq(positions,
                                  LAMBDA i : is_swing_high(candles, i))
             low_at == SelectSeq(positions,
                                 LAMBDA i : is_swing_low(candles, i))
         IN  LiquiditySweepDetector(
                 last_n([k \in 1..Len(high_at) |->
                            [price |-> candles[high_at[k]].high,
                             index |-> high_at[k] - 1,
                             timestamp |-> candles[high_at[k]].timestamp]],
                        swing_maxlen),
                 last_n([k \in 1..Len(low_at) |->
                            [price |-> candles[low_at[k]].low,
                             index |-> low_at[k] - 1,
                             timestamp |-> candles[low_at[k]].timestamp]],
                        swing_maxlen))

\* (candle.high - candle.close) / max(candle.high - candle.low, 0.01) * 100
\* and its mirror: `moved` over the candle's range.
rejection_strength(moved, candle) ==
    IF candle.high - candle.low = 0
    THEN Fraction(moved * 100 * 100, 1)
    ELSE Fraction(moved * 100, candle.high - candle.low)

\* min(sweep_size * 200 + rejection_strength * 0.5, 100), with
\* sweep_size = swept / level * 100.
sweep_strength(swept, level, rejection) ==
    LET raw == Fraction(swept * 20000 * 2 * rejection.den
                            + rejection.num * level,
                        2 * level * rejection.den)
    IN  IF raw.num >= 100 * raw.den THEN Fraction(100, 1) ELSE raw

\* Mutant of sweep_size_ok: the size is taken as a fraction of the level,
\* not as a percentage of it.
sweep_size_ok_as_fraction(swept, level) ==
    swept * min_sweep_pct.den >= min_sweep_pct.num * level

\* sweep_size >= self.min_sweep_pct
sweep_size_ok(swept, level) ==
    swept * 100 * min_sweep_pct.den >= min_sweep_pct.num * level

bear_hunt(swing, candle, prev_candle) ==
    LET level == swing.price
    IN  IF /\ candle.high > level
           /\ candle.close < level
           /\ prev_candle.close < level
           /\ sweep_size_ok(candle.high - level, level)
        THEN LET rejection ==
                     rejection_strength(candle.high - candle.close, candle)
             IN  <<[type |-> BEAR_STOP_HUNT, level |-> level,
                    wick |-> candle.high,
                    sweep_pct |-> Fraction((candle.high - level) * 100, level),
                    rejection |-> rejection,
                    strength |-> sweep_strength(candle.high - level, level,
                                                rejection)]>>
        ELSE <<>>

bull_hunt(swing, candle, prev_candle) ==
    LET level == swing.price
    IN  IF /\ candle.low < level
           /\ candle.close > level
           /\ prev_candle.close > level
           /\ sweep_size_ok(level - candle.low, level)
        THEN LET rejection ==
                     rejection_strength(candle.close - candle.low, candle)
             IN  <<[type |-> BULL_STOP_HUNT, level |-> level,
                    wick |-> candle.low,
                    sweep_pct |-> Fraction((level - candle.low) * 100, level),
                    rejection |-> rejection,
                    strength |-> sweep_strength(level - candle.low, level,
                                                rejection)]>>
        ELSE <<>>

RECURSIVE hunts_over(_, _, _, _)
\* The signals of one loop over a deque of swings: over the highs or over
\* the lows.
hunts_over(swings, candle, prev_candle, highs) ==
    IF swings = <<>> THEN <<>>
    ELSE (IF highs THEN bear_hunt(Head(swings), candle, prev_candle)
          ELSE bull_hunt(Head(swings), candle, prev_candle))
         \o hunts_over(Tail(swings), candle, prev_candle, highs)

\* This variant drops the swing highs the candle swept.
detect_consuming(ls, candle, prev_candle) ==
    IF prev_candle = None THEN [ls |-> ls, ret |-> <<>>]
    ELSE [ls |-> [ls EXCEPT !._swing_highs =
                     SelectSeq(@, LAMBDA swing :
                         bear_hunt(swing, candle, prev_candle[1]) = <<>>)],
          ret |-> hunts_over(ls._swing_highs, candle, prev_candle[1], TRUE)
                  \o hunts_over(ls._swing_lows, candle, prev_candle[1],
                                FALSE)]

\* detect(candle, prev_candle), prev_candle None or Some(candle): the
\* detector after the call, which writes to neither deque, and the signals.
detect(ls, candle, prev_candle) ==
    IF prev_candle = None THEN [ls |-> ls, ret |-> <<>>]
    ELSE [ls |-> ls,
          ret |-> hunts_over(ls._swing_highs, candle, prev_candle[1], TRUE)
                  \o hunts_over(ls._swing_lows, candle, prev_candle[1],
                                FALSE)]

\* ------------------------------------------------------ volume_profile.py
\* A composite profile as a value; _levels is a dict from price to volume,
\* kept as the sequence of its items in insertion order.
CompositeVolumeProfile(levels, candle_count) ==
    [_levels |-> levels, _candle_count |-> candle_count]

profile_price_to_level(price) == (price \div scale) * scale

HasItem(items, price) == \E i \in 1..Len(items) : items[i].price = price

ItemIndex(items, price) == CHOOSE i \in 1..Len(items) : items[i].price = price

RECURSIVE add_levels(_, _)
\* self._levels[rounded] += level.total_volume, for each level of the candle.
add_levels(items, levels) ==
    IF levels = <<>> THEN items
    ELSE LET rounded == profile_price_to_level(Head(levels).price)
             items1 == IF HasItem(items, rounded) THEN items
                       ELSE Append(items, [price |-> rounded, volume |-> 0])
             i == ItemIndex(items1, rounded)
         IN  add_levels([items1 EXCEPT ![i].volume =
                             @ + level_total_volume(Head(levels))],
                        Tail(levels))

profile_add_candle(profile, candle) ==
    CompositeVolumeProfile(add_levels(profile._levels, candle.levels),
                           profile._candle_count + 1)

profile_reset(profile) == CompositeVolumeProfile(<<>>, 0)

profile_total_volume(profile) ==
    sum_over([i \in 1..Len(profile._levels) |-> profile._levels[i].volume],
             1..Len(profile._levels))

\* sorted(..., key=volume, reverse=True): stable, items of equal volume stay
\* in insertion order.
insert_item_by_volume_desc(sorted, item) ==
    LET before == SelectSeq(sorted, LAMBDA x : x.volume >= item.volume)
        after == SelectSeq(sorted, LAMBDA x : x.volume < item.volume)
    IN  before \o <<item>> \o after

RECURSIVE items_by_volume_desc(_)
items_by_volume_desc(items) ==
    IF items = <<>> THEN <<>>
    ELSE insert_item_by_volume_desc(
             items_by_volume_desc(SubSeq(items, 1, Len(items) - 1)),
             items[Len(items)])

RECURSIVE profile_accumulate(_, _, _, _)
\* The loop of get_value_area: target = total_volume * 0.70, compared as
\* 10 * accumulated >= 7 * total_volume.
profile_accumulate(rest, accumulated, included, total) ==
    IF rest = <<>> \/ 10 * accumulated >= 7 * total THEN included
    ELSE profile_accumulate(Tail(rest), accumulated + Head(rest).volume,
                            Append(included, Head(rest).price), total)

profile_get_value_area(profile) ==
    IF profile._levels = <<>> THEN [high |-> 0, low |-> 0, poc |-> 0]
    ELSE LET sorted_levels == items_by_volume_desc(profile._levels)
             included == profile_accumulate(sorted_levels, 0, <<>>,
                                            profile_total_volume(profile))
         IN  [high |-> IF included = <<>> THEN 0 ELSE SeqMax(included),
              low |-> IF included = <<>> THEN 0 ELSE SeqMin(included),
              poc |-> sorted_levels[1].price]

\* This variant looks at the value area before it looks at the POC.
get_signal_bias_value_area_first(profile, current_price) ==
    LET value_area == profile_get_value_area(profile)
        poc_price == value_area.poc
        moved == current_price - poc_price
    IN  IF poc_price = 0 \/ current_price = 0
        THEN [bias |-> 0, level_type |-> "none"]
        ELSE IF current_price < value_area.low
        THEN [bias |-> 8, level_type |-> "below_va"]
        ELSE IF current_price > value_area.high
        THEN [bias |-> 0 - 8, level_type |-> "above_va"]
        ELSE IF moved * 2000 < poc_price /\ moved * 2000 > 0 - poc_price
        THEN [bias |-> 0, level_type |-> "poc"]
        ELSE IF moved * 500 < 0 - poc_price
        THEN [bias |-> 5, level_type |-> "below_poc"]
        ELSE IF moved * 500 > poc_price
        THEN [bias |-> 0 - 5, level_type |-> "above_poc"]
        ELSE [bias |-> 0, level_type |-> "inside_va"]

\* distance_pct = (current_price - poc) / poc * 100, compared with 0.05 and
\* with 0.2 as moved * 2000 with poc and moved * 500 with poc (poc > 0).
get_signal_bias(profile, current_price) ==
    LET value_area == profile_get_value_area(profile)
        poc_price == value_area.poc
        moved == current_price - poc_price
    IN  IF poc_price = 0 \/ current_price = 0
        THEN [bias |-> 0, level_type |-> "none"]
        ELSE IF moved * 2000 < poc_price /\ moved * 2000 > 0 - poc_price
        THEN [bias |-> 0, level_type |-> "poc"]
        ELSE IF current_price < value_area.low
        THEN [bias |-> 8, level_type |-> "below_va"]
        ELSE IF current_price > value_area.high
        THEN [bias |-> 0 - 8, level_type |-> "above_va"]
        ELSE IF moved * 500 < 0 - poc_price
        THEN [bias |-> 5, level_type |-> "below_poc"]
        ELSE IF moved * 500 > poc_price
        THEN [bias |-> 0 - 5, level_type |-> "above_poc"]
        ELSE [bias |-> 0, level_type |-> "inside_va"]

\* The three profiles and the two counters as a value.
MultiPeriodProfile(s, d, w, session_candles, daily_candles) ==
    [session |-> s, daily |-> d, weekly |-> w,
     _session_candles |-> session_candles, _daily_candles |-> daily_candles]

\* This variant resets the session profile once it holds more than 12.
add_candle_reset_late(mp, candle) ==
    LET session1 == profile_add_candle(mp.session, candle)
        daily1 == profile_add_candle(mp.daily, candle)
        weekly1 == profile_add_candle(mp.weekly, candle)
        session_candles == mp._session_candles + 1
        daily_candles == mp._daily_candles + 1
        session_over == session_candles > session_reset_every
        daily_over == daily_candles >= daily_reset_every
    IN  MultiPeriodProfile(
            IF session_over THEN profile_reset(session1) ELSE session1,
            IF daily_over THEN profile_reset(daily1) ELSE daily1,
            weekly1,
            IF session_over THEN 0 ELSE session_candles,
            IF daily_over THEN 0 ELSE daily_candles)

add_candle(mp, candle) ==
    LET session1 == profile_add_candle(mp.session, candle)
        daily1 == profile_add_candle(mp.daily, candle)
        weekly1 == profile_add_candle(mp.weekly, candle)
        session_candles == mp._session_candles + 1
        daily_candles == mp._daily_candles + 1
        session_over == session_candles >= session_reset_every
        daily_over == daily_candles >= daily_reset_every
    IN  MultiPeriodProfile(
            IF session_over THEN profile_reset(session1) ELSE session1,
            IF daily_over THEN profile_reset(daily1) ELSE daily1,
            weekly1,
            IF session_over THEN 0 ELSE session_candles,
            IF daily_over THEN 0 ELSE daily_candles)

\* int(x) for x = twice / 2: the fraction is dropped, towards zero.
int_of_half(twice) ==
    IF twice >= 0 THEN twice \div 2 ELSE 0 - ((0 - twice) \div 2)

\* This variant rounds down.
get_combined_bias_floor(mp, current_price) ==
    LET daily_bias == get_signal_bias(mp.daily, current_price)
        weekly_bias == get_signal_bias(mp.weekly, current_price)
        twice == 2 * daily_bias.bias + 3 * weekly_bias.bias
    IN  [bias |-> Max2(0 - 15, Min2(15, twice \div 2)),
         daily |-> daily_bias, weekly |-> weekly_bias]

\* combined = daily + weekly * 1.5, held as twice its value.
get_combined_bias(mp, current_price) ==
    LET daily_bias == get_signal_bias(mp.daily, current_price)
        weekly_bias == get_signal_bias(mp.weekly, current_price)
        twice == 2 * daily_bias.bias + 3 * weekly_bias.bias
    IN  [bias |-> Max2(0 - 15, Min2(15, int_of_half(twice))),
         daily |-> daily_bias, weekly |-> weekly_bias]

\* ------------------------------------------------------------------ main.py
\* The symbols of two pipelines.
Symbols == {"BTC/USDT:USDT", "ETH/USDT:USDT"}

\* MarketPipeline(symbol, config): the pipeline's own, new engine.
MarketPipeline(symbol) ==
    [symbol |-> symbol, footprint |-> Engine(None, <<>>, 0, <<>>)]

\* This variant hands every symbol the pipeline of one symbol.
pipelines_get_first(table, symbol) ==
    Some(CHOOSE s \in DOMAIN table : TRUE)

\* self.pipelines.get(symbol): None, or the key of the symbol's pipeline.
pipelines_get(table, symbol) ==
    IF symbol \in DOMAIN table THEN Some(symbol) ELSE None

\* The pipelines after _on_tick(symbol, tick), up to the candle close.
_on_tick(table, symbol, tick) ==
    LET pipeline == pipelines_get(table, symbol)
    IN  IF pipeline = None THEN table
        ELSE [table EXCEPT ![pipeline[1]].footprint =
                 process_tick(table[pipeline[1]].footprint, tick).fp]

\* --------------------------- footprint_engine.py: the detectors' analytics
Abs(x) == IF x < 0 THEN 0 - x ELSE x

\* min(num / den, cap) as a fraction, for den > 0.
capped(num, den, cap) ==
    IF num >= cap * den THEN Fraction(cap, 1) ELSE Fraction(num, den)

get_last_n_candles(fp, n) == last_n(fp.completed_candles, n)

\* seq[:n]
first_n(seq, n) == SubSeq(seq, 1, Min2(n, Len(seq)))

last_candle(fp) ==
    IF fp.completed_candles = <<>> THEN None
    ELSE Some(fp.completed_candles[Len(fp.completed_candles)])

\* The zones of one side, largest strength first, equal ones in the order
\* found (sorted is stable), cut to the first two.
insert_zone_by_strength_desc(sorted, zone) ==
    LET ge(x) == x.strength.num * zone.strength.den
                     >= zone.strength.num * x.strength.den
    IN  SelectSeq(sorted, LAMBDA x : ge(x)) \o <<zone>>
            \o SelectSeq(sorted, LAMBDA x : ~ge(x))

RECURSIVE zones_by_strength_desc(_)
zones_by_strength_desc(zones) ==
    IF zones = <<>> THEN <<>>
    ELSE insert_zone_by_strength_desc(
             zones_by_strength_desc(SubSeq(zones, 1, Len(zones) - 1)),
             zones[Len(zones)])

\* detect_absorption(candle); level.total_volume < avg_volume * 5 is
\* compared as volume * len(levels) < 5 * total_volume.
detect_absorption(candle) ==
    IF candle_total_volume(candle) = 0 \/ Len(candle.levels) < 3
    THEN [support |-> <<>>, resistance |-> <<>>]
    ELSE LET n == Len(candle.levels)
             total == candle_total_volume(candle)
             sorted_prices == sorted_by_price(candle.levels)
             zone_len == Max2(n \div 4, 1)
             low_zone == {sorted_prices[i].price : i \in 1..zone_len}
             high_zone == {sorted_prices[i].price : i \in (n - zone_len + 1)..n}
             heavy(level) == ~(level_total_volume(level) * n < 5 * total)
             zone(level) == [price |-> level.price,
                             bid_vol |-> level.bid_volume,
                             ask_vol |-> level.ask_volume,
                             strength |-> Fraction(level_total_volume(level) * n,
                                                   total)]
             supports ==
                 SelectSeq(candle.levels,
                           LAMBDA level :
                               /\ heavy(level)
                               /\ level.price \in low_zone
                               /\ 2 * level.bid_volume > 3 * level.ask_volume
                               /\ candle.close > level.price)
             resistances ==
                 SelectSeq(candle.levels,
                           LAMBDA level :
                               /\ heavy(level)
                               /\ level.price \in high_zone
                               /\ 2 * level.ask_volume > 3 * level.bid_volume
                               /\ candle.close < level.price)
         IN  [support |-> first_n(zones_by_strength_desc(
                              [i \in 1..Len(supports) |-> zone(supports[i])]), 2),
              resistance |-> first_n(zones_by_strength_desc(
                              [i \in 1..Len(resistances) |->
                                  zone(resistances[i])]), 2)]

\* detect_exhaustion(lookback=5): None, Some(result), or what the division
\* by a range_ratio of 0 raises.
detect_exhaustion(fp) ==
    IF Len(fp.completed_candles) < exhaustion_lookback + 1
    THEN [raised |-> FALSE, ret |-> None]
    ELSE LET recent == last_n(fp.completed_candles, exhaustion_lookback)
             latest == recent[Len(recent)]
             prior == SubSeq(recent, 1, Len(recent) - 1)
             sum_delta == sum_over([i \in 1..Len(prior) |->
                                       Abs(candle_delta(prior[i]))],
                                   1..Len(prior))
             sum_range == sum_over([i \in 1..Len(prior) |->
                                       prior[i].high - prior[i].low],
                                   1..Len(prior))
             latest_range == latest.high - latest.low
             latest_delta == Abs(candle_delta(latest))
         IN  IF sum_delta = 0 \/ sum_range = 0
             THEN [raised |-> FALSE, ret |-> None]
             \* delta_ratio > 1.5 and range_ratio < 0.5, both ratios over
             \* averages of len(prior) candles
             ELSE IF /\ 2 * latest_delta * Len(prior) > 3 * sum_delta
                     /\ 2 * latest_range * Len(prior) < sum_range
             THEN IF latest_range = 0
                  THEN [raised |-> TRUE, ret |-> None]
                  ELSE [raised |-> FALSE,
                        ret |-> Some(
                            [type |-> IF candle_delta(latest) > 0
                                      THEN "exhaustion_bull"
                                      ELSE "exhaustion_bear",
                             price |-> latest.close,
                             strength |-> capped(
                                 latest_delta * sum_range * 20,
                                 sum_delta * latest_range, 100)])]
             ELSE [raised |-> FALSE, ret |-> None]

\* get_cvd_trend(lookback=10); slope = (values[-1] - values[0]) / lookback,
\* and strength = min(abs(slope) / max(max_val * 0.01, 0.001) * 50, 100).
get_cvd_trend(fp) ==
    IF Len(fp.cvd_history) < cvd_lookback
    THEN [direction |-> "neutral", strength |-> Fraction(0, 1)]
    ELSE LET values == last_n(fp.cvd_history, cvd_lookback)
             moved == values[Len(values)] - values[1]
             max_val == SeqMax([i \in 1..Len(values) |-> Abs(values[i])])
         IN  [direction |-> IF Abs(moved) * 10 < cvd_lookback THEN "neutral"
                            ELSE IF moved > 0 THEN "up" ELSE "down",
              strength |->
                  \* max(max_val * 0.01, 0.001) is max_val / 100 from a
                  \* max_val of 1 on, and 1 / 1000 for a max_val of 0
                  IF max_val = 0
                  THEN capped(Abs(moved) * 50 * 1000, cvd_lookback, 100)
                  ELSE capped(Abs(moved) * 50 * 100, cvd_lookback * max_val,
                              100)]

\* ------------------------------------------------------ signal_detector.py
\* An OrderFlowSignal as analyze builds it, its strength a fraction.
DetectedSignal(type, strength, price, timestamp) ==
    [type |-> type, strength |-> strength, price |-> price,
     timestamp |-> timestamp]

_detect_stacked_imbalances(candle) ==
    LET found == get_stacked_imbalances(candle)
    IN  [i \in 1..Len(found.buy) |->
            DetectedSignal(STACKED_IMBALANCE_BUY,
                           capped(Len(found.buy[i]) * 20 + 20, 1, 100),
                           found.buy[i][1], candle.timestamp)]
        \o [i \in 1..Len(found.sell) |->
               DetectedSignal(STACKED_IMBALANCE_SELL,
                              capped(Len(found.sell[i]) * 20 + 20, 1, 100),
                              found.sell[i][Len(found.sell[i])],
                              candle.timestamp)]

_detect_delta_divergence(fp, candle) ==
    LET prev_candles == get_last_n_candles(fp, 3)
    IN  IF Len(prev_candles) < 2 THEN <<>>
        ELSE LET prev == prev_candles[Len(prev_candles) - 1]
                 price_up == candle.close > prev.close
                                 /\ candle.high > prev.high
                 price_down == candle.close < prev.close
                                   /\ candle.low < prev.low
                 delta_negative == candle_delta(candle) < 0
                     /\ candle_delta(candle) < candle_delta(prev)
                 delta_positive == candle_delta(candle) > 0
                     /\ candle_delta(candle) > candle_delta(prev)
                 div_strength ==
                     capped(Abs(candle_delta(candle)) * 200,
                            Max2(candle_total_volume(candle), 1), 100)
             IN  (IF price_up /\ delta_negative
                  THEN <<DetectedSignal(DELTA_DIVERGENCE_BEAR, div_strength,
                                        candle.close, candle.timestamp)>>
                  ELSE <<>>)
                 \o (IF price_down /\ delta_positive
                     THEN <<DetectedSignal(DELTA_DIVERGENCE_BULL, div_strength,
                                           candle.close, candle.timestamp)>>
                     ELSE <<>>)

_detect_absorption(candle) ==
    LET absorption == detect_absorption(candle)
        signal(type, zone) ==
            DetectedSignal(type,
                           capped(zone.strength.num * 25, zone.strength.den,
                                  100),
                           zone.price, candle.timestamp)
    IN  [i \in 1..Len(absorption.support) |->
            signal(ABSORPTION_SUPPORT, absorption.support[i])]
        \o [i \in 1..Len(absorption.resistance) |->
               signal(ABSORPTION_RESISTANCE, absorption.resistance[i])]

\* The signals, or the exception detect_exhaustion raised.
_detect_exhaustion(fp) ==
    LET result == detect_exhaustion(fp)
        candle == last_candle(fp)
        ts == IF candle # None THEN candle[1].timestamp ELSE 0
    IN  IF result.raised THEN [raised |-> TRUE, signals |-> <<>>]
        ELSE IF result.ret = None THEN [raised |-> FALSE, signals |-> <<>>]
        ELSE [raised |-> FALSE,
              signals |->
                  <<DetectedSignal(IF result.ret[1].type = "exhaustion_bull"
                                   THEN EXHAUSTION_BULL ELSE EXHAUSTION_BEAR,
                                   result.ret[1].strength,
                                   result.ret[1].price, ts)>>]

_detect_cvd_confirmation(fp, candle) ==
    LET trend == get_cvd_trend(fp)
    IN  IF trend.strength.num < 30 * trend.strength.den THEN <<>>
        ELSE IF trend.direction = "up" /\ candle.close > candle.open
        THEN <<DetectedSignal(CVD_CONFIRMS_UP, trend.strength, candle.close,
                              candle.timestamp)>>
        ELSE IF trend.direction = "down" /\ candle.close < candle.open
        THEN <<DetectedSignal(CVD_CONFIRMS_DOWN, trend.strength,
                              candle.close, candle.timestamp)>>
        ELSE <<>>

\* distance_pct = abs(price - poc) / poc * 100, compared with 0.05 and with
\* 0.3; the strength is min(distance_pct * 100, 80).
_detect_poc_magnet(fp, candle) ==
    LET prev_candles == get_last_n_candles(fp, 5)
    IN  IF Len(prev_candles) < 2 THEN <<>>
        ELSE LET prev == prev_candles[Len(prev_candles) - 1]
                 poc_price == get_value_area(prev, 70).poc
                 price == candle.close
                 away == Abs(price - poc_price)
                 strength == capped(away * 100 * 100, poc_price, 80)
             IN  IF poc_price = 0 THEN <<>>
                 ELSE IF away * 100 * 100 < 5 * poc_price THEN <<>>
                 ELSE IF away * 100 * 10 > 3 * poc_price /\ price < poc_price
                 THEN <<DetectedSignal(POC_MAGNET_LONG, strength, price,
                                       candle.timestamp)>>
                 ELSE IF away * 100 * 10 > 3 * poc_price /\ price > poc_price
                 THEN <<DetectedSignal(POC_MAGNET_SHORT, strength, price,
                                       candle.timestamp)>>
                 ELSE <<>>

\* analyze(candle): the engine after the call, which writes to none of its
\* fields, and the signals or the exception.
analyze(fp, candle) ==
    LET exhaustion == _detect_exhaustion(fp)
    IN  [fp |-> fp,
         raised |-> exhaustion.raised,
         signals |-> IF exhaustion.raised THEN <<>>
                     ELSE _detect_stacked_imbalances(candle)
                          \o _detect_delta_divergence(fp, candle)
                          \o _detect_absorption(candle)
                          \o exhaustion.signals
                          \o _detect_cvd_confirmation(fp, candle)
                          \o _detect_poc_magnet(fp, candle)]

\* --------------------------------- strategy_engine.py: the trade's levels
atr_lookback == 10

\* round(x, 2) of the fraction x, in hundredths: the nearest whole number of
\* hundredths, the even one when two are equally near.
round_2(x) ==
    LET n == x.num * 100
        q == IF n >= 0 THEN n \div x.den
             ELSE 0 - ((x.den - 1 - n) \div x.den)
        r == n - q * x.den
    IN  Fraction(IF 2 * r < x.den THEN q
                 ELSE IF 2 * r > x.den THEN q + 1
                 ELSE IF q % 2 = 0 THEN q ELSE q + 1,
                 100)

\* The ATR proxy of _compute_sl_tp, a fraction.
atr_proxy_of(fp, candle) ==
    LET recent == get_last_n_candles(fp, atr_lookback)
        positive(c) == c.high - c.low > 0
        ranges == SelectSeq(recent, positive)
        total == sum_over([i \in 1..Len(ranges) |->
                              ranges[i].high - ranges[i].low],
                          1..Len(ranges))
        first == IF Len(recent) >= 3
                 THEN IF ranges # <<>> THEN Fraction(total, Len(ranges))
                      ELSE Fraction(candle.close * 2, 1000)
                 ELSE Fraction(candle.high - candle.low, 1)
    IN  IF first.num = 0 THEN Fraction(candle.close * 2, 1000) ELSE first

\* The two distances for an ATR proxy, each a fraction.
sl_tp_distances(atr_proxy, candle, strategy) ==
    IF strategy = REVERSAL
    THEN [sl |-> Fraction(atr_proxy.num * 12, atr_proxy.den * 10),
          tp |-> Fraction(atr_proxy.num * 2, atr_proxy.den)]
    ELSE IF strategy = BREAKOUT
    THEN [sl |-> Fraction(atr_proxy.num * 8, atr_proxy.den * 10),
          tp |-> Fraction(atr_proxy.num * 25, atr_proxy.den * 10)]
    ELSE LET poc_distance == Abs(candle.close - get_value_area(candle, 70).poc)
             wide == Fraction(atr_proxy.num * 15, atr_proxy.den * 10)
         IN  [sl |-> atr_proxy,
              tp |-> IF poc_distance * wide.den >= wide.num
                     THEN Fraction(poc_distance, 1) ELSE wide]

\* close + sign * distance
level_at(close, sign, distance) ==
    Fraction(close * distance.den + sign * distance.num, distance.den)

\* Mutant of _compute_sl_tp: the candles of zero range count in the mean.
_compute_sl_tp_all_ranges(fp, candle, side, strategy) ==
    LET recent == get_last_n_candles(fp, atr_lookback)
        total == sum_over([i \in 1..Len(recent) |->
                              recent[i].high - recent[i].low],
                          1..Len(recent))
        first == IF Len(recent) >= 3 THEN Fraction(total, Len(recent))
                 ELSE Fraction(candle.high - candle.low, 1)
        atr_proxy == IF first.num = 0 THEN Fraction(candle.close * 2, 1000)
                     ELSE first
        distance == sl_tp_distances(atr_proxy, candle, strategy)
    IN  IF side = BUY
        THEN [sl |-> round_2(level_at(candle.close, -1, distance.sl)),
              tp |-> round_2(level_at(candle.close, 1, distance.tp))]
        ELSE [sl |-> round_2(level_at(candle.close, 1, distance.sl)),
              tp |-> round_2(level_at(candle.close, -1, distance.tp))]

_compute_sl_tp(fp, candle, side, strategy) ==
    LET atr_proxy == atr_proxy_of(fp, candle)
        distance == sl_tp_distances(atr_proxy, candle, strategy)
    IN  IF side = BUY
        THEN [sl |-> round_2(level_at(candle.close, -1, distance.sl)),
              tp |-> round_2(level_at(candle.close, 1, distance.tp))]
        ELSE [sl |-> round_2(level_at(candle.close, 1, distance.sl)),
              tp |-> round_2(level_at(candle.close, -1, distance.tp))]

\* The TradeSignal; its timestamp, the clock's, is left out.
_build_long_signal(fp, candle, sigs, score) ==
    LET strategy == _classify_strategy(sigs, BUY)
        levels == _compute_sl_tp(fp, candle, BUY, strategy)
    IN  [side |-> BUY,
         strategy |-> strategy,
         entry_price |-> candle.close,
         stop_loss |-> levels.sl,
         take_profit |-> levels.tp,
         confluence_score |-> score,
         signals |-> relevant_signals(sigs, BULLISH_SIGNALS)]

_build_short_signal(fp, candle, sigs, score) ==
    LET strategy == _classify_strategy(sigs, SELL)
        levels == _compute_sl_tp(fp, candle, SELL, strategy)
    IN  [side |-> SELL,
         strategy |-> strategy,
         entry_price |-> candle.close,
         stop_loss |-> levels.sl,
         take_profit |-> levels.tp,
         confluence_score |-> score,
         signals |-> relevant_signals(sigs, BEARISH_SIGNALS)]

\* Mutant of evaluate: a tie of the two scores goes to the long side.
evaluate_tie_is_long(fp, candle, sigs) ==
    IF sigs = <<>> THEN None
    ELSE LET bull_score == _compute_directional_score(sigs, BULLISH_SIGNALS)
             bear_score == _compute_directional_score(sigs, BEARISH_SIGNALS)
         IN  IF score_ge(bull_score, min_score)
                /\ ~score_gt(bear_score, bull_score)
             THEN Some(_build_long_signal(fp, candle, sigs, bull_score))
             ELSE IF score_ge(bear_score, min_score)
                     /\ score_gt(bear_score, bull_score)
             THEN Some(_build_short_signal(fp, candle, sigs, bear_score))
             ELSE None

evaluate(fp, candle, sigs) ==
    IF sigs = <<>> THEN None
    ELSE LET bull_score == _compute_directional_score(sigs, BULLISH_SIGNALS)
             bear_score == _compute_directional_score(sigs, BEARISH_SIGNALS)
         IN  IF score_ge(bull_score, min_score)
                /\ score_gt(bull_score, bear_score)
             THEN Some(_build_long_signal(fp, candle, sigs, bull_score))
             ELSE IF score_ge(bear_score, min_score)
                     /\ score_gt(bear_score, bull_score)
             THEN Some(_build_short_signal(fp, candle, sigs, bear_score))
             ELSE None

\* ------------------------------------------------------------ the inputs
\* Tick scales, in price units.
Scales == {1, 2}

\* A tick lands at the first or at the last millisecond of its bucket.
Offsets == {0, candle_ms - 1}

Ticks ==
    [timestamp : {b * candle_ms + o : b \in 0..MaxBucket, o \in Offsets},
     price : 1..MaxPrice,
     quantity : 1..MaxQty,
     is_buyer_maker : BOOLEAN]

\* Every candle the engine holds: the open one and the closed ones.
HeldCandles ==
    {current_candle[i] : i \in 1..Len(current_candle)}
    \cup {completed_candles[i] : i \in 1..Len(completed_candles)}

\* ------------------------------------------------------------ the engine
InitEngine ==
    /\ current_candle = None
    /\ completed_candles = <<>>
    /\ cumulative_delta = 0
    /\ cvd_history = <<>>
    /\ last_tick = None
    /\ returned = None
    /\ folded = <<>>
    /\ closed_log = <<>>
    /\ nticks = 0

\* Config's defaults for what a specification does not vary.
InitDefaults ==
    /\ imbalance_ratio = default_imbalance_ratio
    /\ imbalance_volume = default_imbalance_volume
    /\ stacked_min = default_stacked_imbalance_min
    /\ min_score = default_min_confluence_score

InitCalls ==
    /\ va = None
    /\ stacks = None
    /\ signals = <<>>
    /\ trade = None

InitRegime ==
    /\ current_regime = RANGING
    /\ _regimes = <<>>
    /\ regime_window = <<>>
    /\ regime_ret = None
    /\ regime_calls = 0

InitSweep ==
    /\ _swing_highs = <<>>
    /\ _swing_lows = <<>>
    /\ sweep_window = <<>>
    /\ swing_arg = None
    /\ sweep_ret = None
    /\ sweep_fed = 0
    /\ sweep_calls = 0

InitProfile ==
    /\ session = CompositeVolumeProfile(<<>>, 0)
    /\ daily = CompositeVolumeProfile(<<>>, 0)
    /\ weekly = CompositeVolumeProfile(<<>>, 0)
    /\ _session_candles = 0
    /\ _daily_candles = 0
    /\ profile_log = <<>>
    /\ bias_ret = None

InitMarkets ==
    /\ pipelines = [symbol \in Symbols |-> MarketPipeline(symbol)]
    /\ streams = [symbol \in Symbols |-> <<>>]

InitDetectors ==
    /\ analyzed = None

InitComponents ==
    /\ InitRegime
    /\ InitSweep
    /\ InitProfile
    /\ InitMarkets
    /\ InitDetectors

Init ==
    /\ scale \in Scales
    /\ InitDefaults
    /\ InitEngine
    /\ InitCalls
    /\ InitComponents

Folded(tick) ==
    [price |-> tick.price, quantity |-> tick.quantity,
     is_buyer_maker |-> tick.is_buyer_maker]

\* One call of process_tick; r is the call's outcome.
ProcessTick(tick) ==
    \E r \in {process_tick(Engine(current_candle, completed_candles,
                                  cumulative_delta, cvd_history), tick)} :
        /\ current_candle' = r.fp.current_candle
        /\ completed_candles' = r.fp.completed_candles
        /\ cumulative_delta' = r.fp.cumulative_delta
        /\ cvd_history' = r.fp.cvd_history
        /\ last_tick' = Some(tick)
        /\ returned' = r.ret
        /\ folded' = IF r.ret = None THEN Append(folded, Folded(tick))
                     ELSE <<Folded(tick)>>
        /\ closed_log' = IF r.ret = None THEN closed_log
                         ELSE Append(closed_log,
                                     [candle |-> r.ret[1],
                                      cvd |-> r.fp.cumulative_delta])
        /\ nticks' = nticks + 1
        /\ va' = None
        /\ stacks' = None
        /\ UNCHANGED <<config, signals, trade, components>>

Next ==
    \E tick \in Ticks : nticks < MaxTicks /\ ProcessTick(tick)

Spec == Init /\ [][Next]_vars

\* ---------------------------------------------------------- the long run
\* Enough closes to fill the bounded histories: first LongPrefix buy ticks,
\* one per bucket, then LongTail ticks of either side, at either of two
\* prices, in the open candle's bucket or in the next one.
LongTicks ==
    IF nticks < LongPrefix
    THEN {[timestamp |-> nticks * candle_ms, price |-> 1, quantity |-> 1,
           is_buyer_maker |-> FALSE]}
    ELSE [timestamp : {current_candle[1].timestamp + d * candle_ms
                          : d \in 0..1},
          price : 1..2,
          quantity : {1},
          is_buyer_maker : BOOLEAN]

InitLong ==
    /\ scale = 1
    /\ InitDefaults
    /\ InitEngine
    /\ InitCalls
    /\ InitComponents

NextLong ==
    \E tick \in LongTicks :
        nticks < LongPrefix + LongTail /\ ProcessTick(tick)

SpecLong == InitLong /\ [][NextLong]_vars

\* ------------------------------------------------- the candle's analytics
\* The analytics are read-only calls on a candle the engine holds; the
\* candles are built by ticks of one bucket.
OneBucketTicks == {t \in Ticks : t.timestamp = 0}

\* Target percentages of get_value_area, in percent; 70 is the default.
Pcts == {0, 50, 70, 100}

GetValueArea(candle, pct) ==
    /\ va' = Some([candle |-> candle, pct |-> pct,
                   result |-> get_value_area(candle, pct)])
    /\ UNCHANGED <<config, current_candle, completed_candles,
                   cumulative_delta, cvd_history, last_tick, returned, stacks,
                   signals, trade, folded, closed_log, nticks,
                   components>>

NextVA ==
    \/ \E tick \in OneBucketTicks : nticks < MaxTicks /\ ProcessTick(tick)
    \/ \E candle \in HeldCandles, pct \in Pcts : GetValueArea(candle, pct)

SpecVA == Init /\ [][NextVA]_vars

\* Thresholds of the stacked-imbalance scan.
ImbalanceRatios == {2, 3}
ImbalanceVolumes == {1, 2, 3}
StackedMins == {0, 1, 2, 3}

InitStacked ==
    /\ scale \in Scales
    /\ imbalance_ratio \in ImbalanceRatios
    /\ imbalance_volume \in ImbalanceVolumes
    /\ stacked_min \in StackedMins
    /\ min_score = default_min_confluence_score
    /\ InitEngine
    /\ InitCalls
    /\ InitComponents

GetStackedImbalances(candle) ==
    /\ stacks' = Some([candle |-> candle,
                       result |-> get_stacked_imbalances(candle)])
    /\ UNCHANGED <<config, current_candle, completed_candles,
                   cumulative_delta, cvd_history, last_tick, returned, va,
                   signals, trade, folded, closed_log, nticks,
                   components>>

NextStacked ==
    \/ \E tick \in OneBucketTicks : nticks < MaxTicks /\ ProcessTick(tick)
    \/ \E candle \in HeldCandles : GetStackedImbalances(candle)

SpecStacked == InitStacked /\ [][NextStacked]_vars

\* ------------------------------------------------------ the strategy call
\* The signal types in the order SignalDetector.analyze emits them; a list
\* handed to evaluate is in that order.
SignalOrder ==
    <<STACKED_IMBALANCE_BUY, STACKED_IMBALANCE_SELL, DELTA_DIVERGENCE_BEAR,
      DELTA_DIVERGENCE_BULL, ABSORPTION_SUPPORT, ABSORPTION_RESISTANCE,
      EXHAUSTION_BULL, EXHAUSTION_BEAR, CVD_CONFIRMS_UP, CVD_CONFIRMS_DOWN,
      POC_MAGNET_LONG, POC_MAGNET_SHORT>>

Strengths == {60, 80, 100}

\* Minimum confluence scores: none, Config's default, and one that a score
\* can equal.
MinScores == {0, default_min_confluence_score, 68}

Signals ==
    {OrderFlowSignal(SignalOrder[i], strength) :
        i \in 1..Len(SignalOrder), strength \in Strengths}

TypeRank(type) == CHOOSE i \in 1..Len(SignalOrder) : SignalOrder[i] = type

\* The candle of the call: one trade at price 2.
SampleCandle ==
    [FootprintCandle(0, 2) EXCEPT
        !.high = 2, !.low = 2, !.close = 2, !.total_ask = 1,
        !.total_trades = 1,
        !.levels = <<[FootprintLevel(2) EXCEPT !.ask_volume = 1,
                                               !.trades = 1]>>]

InitStrategy ==
    /\ scale = 1
    /\ imbalance_ratio = default_imbalance_ratio
    /\ imbalance_volume = default_imbalance_volume
    /\ stacked_min = default_stacked_imbalance_min
    /\ min_score \in MinScores
    /\ InitEngine
    /\ InitCalls
    /\ InitComponents

\* analyze extends the candle's signal list by one detected signal, before
\* the list is handed to evaluate.
AddSignal(sig) ==
    /\ trade = None
    /\ IF signals = <<>> THEN TRUE
       ELSE TypeRank(signals[Len(signals)].type) <= TypeRank(sig.type)
    /\ signals' = Append(signals, sig)
    /\ UNCHANGED <<config, current_candle, completed_candles,
                   cumulative_delta, cvd_history, last_tick, returned, va,
                   stacks, trade, folded, closed_log, nticks,
                   components>>

\* One call of evaluate on the signal list; the two scores are the ones the
\* call logs.
Evaluate(candle) ==
    /\ trade' = Some([candle |-> candle,
                      bull_score |-> _compute_directional_score(
                                         signals, BULLISH_SIGNALS),
                      bear_score |-> _compute_directional_score(
                                         signals, BEARISH_SIGNALS),
                      result |-> evaluate(
                                     Engine(current_candle, completed_candles,
                                            cumulative_delta, cvd_history),
                                     candle, signals)])
    /\ UNCHANGED <<config, current_candle, completed_candles,
                   cumulative_delta, cvd_history, last_tick, returned, va,
                   stacks, signals, folded, closed_log, nticks,
                   components>>

NextStrategy ==
    \/ \E sig \in Signals : Len(signals) < MaxSignals /\ AddSignal(sig)
    \/ Evaluate(SampleCandle)

SpecStrategy == InitStrategy /\ [][NextStrategy]_vars

\* ------------------------------------------------------- the regime calls
\* The candles of a window: one trade each, at one of two closes, of no
\* volume, a small one or a large one.
RegimeCloses == {100, 101}
RegimeVolumes == {0, 1, 10}

\* The closed candle of one trade.
OneTradeCandle(timestamp, price, quantity) ==
    [FootprintCandle(timestamp, price) EXCEPT
        !.high = price, !.low = price, !.close = price,
        !.total_ask = quantity, !.total_trades = 1,
        !.levels = <<[FootprintLevel(price) EXCEPT !.ask_volume = quantity,
                                                   !.trades = 1]>>]

InitRegimeCalls ==
    /\ scale = 1
    /\ InitDefaults
    /\ InitEngine
    /\ InitCalls
    /\ InitComponents

\* The caller puts one more closed candle on the list it will hand over.
ExtendRegimeWindow(close, volume) ==
    /\ regime_ret = None
    /\ regime_window' =
           Append(regime_window,
                  OneTradeCandle(Len(regime_window) * candle_ms, close, volume))
    /\ UNCHANGED <<config, core_vars, not_regime, current_regime, _regimes,
                   regime_ret, regime_calls>>

\* One call of RegimeDetector.analyze on the list, and of should_trade
\* right after it.
AnalyzeRegime ==
    \E r \in {regime_analyze(RegimeDetector(current_regime, _regimes),
                             regime_window)} :
        /\ regime_ret = None
        /\ current_regime' = r.rd.current_regime
        /\ _regimes' = r.rd._regimes
        /\ regime_ret' = Some([regime |-> r.ret,
                               should_trade |-> should_trade(r.rd)])
        /\ regime_calls' = regime_calls + 1
        /\ UNCHANGED <<config, core_vars, not_regime, regime_window>>

\* The caller starts the list of the next call.
NewRegimeWindow ==
    /\ regime_ret # None
    /\ regime_window' = <<>>
    /\ regime_ret' = None
    /\ UNCHANGED <<config, core_vars, not_regime, current_regime, _regimes,
                   regime_calls>>

NextRegime ==
    \/ \E close \in RegimeCloses, volume \in RegimeVolumes :
          Len(regime_window) < MaxWindow /\ ExtendRegimeWindow(close, volume)
    \/ regime_calls < MaxRegimeCalls /\ AnalyzeRegime
    \/ regime_calls < MaxRegimeCalls /\ NewRegimeWindow

SpecRegime == InitRegimeCalls /\ [][NextRegime]_vars

\* -------------------------------------------------------- the sweep calls
\* The candles of a window, as (low, high, close): a flat one, a spike both
\* ways, a wide and a narrow wick both ways that close back in the middle,
\* and a candle that closes at its high.
SweepShapes ==
    {<<10000, 10000, 10000>>, <<9990, 10010, 10000>>,
     <<9950, 10050, 10000>>, <<9986, 10014, 10000>>,
     <<10000, 10020, 10020>>}

\* The closed candle of three buys of 1, at its low, its high and its close.
WickCandle(timestamp, shape) ==
    LET buy(price) == [timestamp |-> timestamp, price |-> price,
                       quantity |-> 1, is_buyer_maker |-> FALSE]
    IN  _add_tick_to_candle(
            _add_tick_to_candle(
                _add_tick_to_candle(FootprintCandle(timestamp, shape[1]),
                                    buy(shape[1])),
                buy(shape[2])),
            buy(shape[3]))

InitSweepCalls ==
    /\ scale = 1
    /\ InitDefaults
    /\ InitEngine
    /\ InitCalls
    /\ InitComponents

\* The caller puts one more closed candle on the list it will hand over.
ExtendSweepWindow(shape) ==
    /\ sweep_window' = Append(sweep_window,
                              WickCandle(sweep_fed * candle_ms, shape))
    /\ sweep_fed' = sweep_fed + 1
    /\ sweep_ret' = None
    /\ UNCHANGED <<config, core_vars, not_sweep, _swing_highs, _swing_lows,
                   swing_arg, sweep_calls>>

\* One call of update_swings on the list.
UpdateSwings ==
    \E ls \in {update_swings(LiquiditySweepDetector(_swing_highs,
                                                    _swing_lows),
                             sweep_window)} :
        /\ _swing_highs' = ls._swing_highs
        /\ _swing_lows' = ls._swing_lows
        /\ swing_arg' = Some(sweep_window)
        /\ sweep_ret' = None
        /\ sweep_calls' = sweep_calls + 1
        /\ UNCHANGED <<config, core_vars, not_sweep, sweep_window, sweep_fed>>

\* One call of detect on the list's last candle and the one before it.
DetectSweep ==
    /\ sweep_window # <<>>
    /\ \E candle \in {sweep_window[Len(sweep_window)]},
          prev \in {IF Len(sweep_window) >= 2
                    THEN Some(sweep_window[Len(sweep_window) - 1])
                    ELSE None} :
       \E r \in {detect(LiquiditySweepDetector(_swing_highs, _swing_lows),
                         candle, prev)} :
           /\ _swing_highs' = r.ls._swing_highs
           /\ _swing_lows' = r.ls._swing_lows
           /\ sweep_ret' = Some([candle |-> candle, prev_candle |-> prev,
                                 ret |-> r.ret])
    /\ sweep_calls' = sweep_calls + 1
    /\ UNCHANGED <<config, core_vars, not_sweep, sweep_window, swing_arg,
                   sweep_fed>>

\* The caller starts the list of the next call.
NewSweepWindow ==
    /\ sweep_window # <<>>
    /\ sweep_window' = <<>>
    /\ sweep_ret' = None
    /\ UNCHANGED <<config, core_vars, not_sweep, _swing_highs, _swing_lows,
                   swing_arg, sweep_fed, sweep_calls>>

NextSweep ==
    \/ \E shape \in SweepShapes :
          sweep_fed < MaxSweepCandles /\ ExtendSweepWindow(shape)
    \/ sweep_calls < MaxSweepCalls /\ UpdateSwings
    \/ sweep_calls < MaxSweepCalls /\ DetectSweep
    \/ sweep_calls > 0 /\ sweep_fed < MaxSweepCandles /\ NewSweepWindow

SpecSweep == InitSweepCalls /\ [][NextSweep]_vars

\* ------------------------------------------------------ the profile calls
\* The closed candles handed to the profiles, as the (price, quantity) of
\* their trades: one level or two.
ProfileShapes ==
    {<<<<10000, 2>>>>, <<<<9900, 1>>>>, <<<<10100, 1>>>>,
     <<<<9900, 1>>, <<10100, 1>>>>}

\* The shape of the k-th candle of the long run's fixed part.
PrefixShape(k) ==
    IF k % 4 = 1 THEN <<<<10000, 2>>>>
    ELSE IF k % 4 = 2 THEN <<<<9900, 1>>>>
    ELSE IF k % 4 = 3 THEN <<<<10100, 1>>>>
    ELSE <<<<9900, 1>>, <<10100, 1>>>>

RECURSIVE fold_trades(_, _)
fold_trades(candle, trades) ==
    IF trades = <<>> THEN candle
    ELSE fold_trades(
             _add_tick_to_candle(candle,
                 [timestamp |-> candle.timestamp, price |-> Head(trades)[1],
                  quantity |-> Head(trades)[2], is_buyer_maker |-> FALSE]),
             Tail(trades))

\* The closed candle of the trades of `shape`.
TradesCandle(timestamp, shape) ==
    fold_trades(FootprintCandle(timestamp, shape[1][1]), shape)

\* The prices get_combined_bias is asked about: no price, prices below,
\* inside and above the levels, and prices next to a level.
BiasPrices == {0, 9800, 9950, 9999, 10000, 10050, 10099, 10200}

InitProfileCalls ==
    /\ scale = 1
    /\ InitDefaults
    /\ InitEngine
    /\ InitCalls
    /\ InitComponents

\* One call of MultiPeriodProfile.add_candle.
AddCandle(shape) ==
    \E candle \in {TradesCandle(Len(profile_log) * candle_ms, shape)} :
    \E mp \in {add_candle(MultiPeriodProfile(session, daily, weekly,
                                             _session_candles, _daily_candles),
                          candle)} :
        /\ session' = mp.session
        /\ daily' = mp.daily
        /\ weekly' = mp.weekly
        /\ _session_candles' = mp._session_candles
        /\ _daily_candles' = mp._daily_candles
        /\ profile_log' = Append(profile_log, candle)
        /\ bias_ret' = None
        /\ UNCHANGED <<config, core_vars, not_profile>>

\* One call of MultiPeriodProfile.get_combined_bias.
GetCombinedBias(current_price) ==
    /\ bias_ret' =
           Some([price |-> current_price,
                 result |-> get_combined_bias(
                     MultiPeriodProfile(session, daily, weekly,
                                        _session_candles, _daily_candles),
                     current_price)])
    /\ UNCHANGED <<config, core_vars, not_profile, session, daily, weekly,
                   _session_candles, _daily_candles, profile_log>>

\* A long run: ProfilePrefix candles of a fixed cycle of shapes, then
\* ProfileTail candles of any shape; a price is asked about at any time.
NextProfile ==
    \/ \E shape \in IF Len(profile_log) < ProfilePrefix
                    THEN {PrefixShape(Len(profile_log) + 1)}
                    ELSE ProfileShapes :
          Len(profile_log) < ProfilePrefix + ProfileTail /\ AddCandle(shape)
    \/ \E current_price \in BiasPrices :
          bias_ret = None /\ GetCombinedBias(current_price)

SpecProfile == InitProfileCalls /\ [][NextProfile]_vars

\* ------------------------------------------------------- the two pipelines
\* The ticks of the two streams: at the start of a bucket, at either of two
\* prices, of either side.
PipelineTicks ==
    [timestamp : {b * candle_ms : b \in 0..MaxBucket},
     price : 1..2,
     quantity : {1},
     is_buyer_maker : BOOLEAN]

InitPipelines ==
    /\ scale = 1
    /\ InitDefaults
    /\ InitEngine
    /\ InitCalls
    /\ InitComponents

\* One tick of one symbol's stream arrives.
OnTick(symbol, tick) ==
    /\ pipelines' = _on_tick(pipelines, symbol, tick)
    /\ streams' = [streams EXCEPT ![symbol] = Append(@, tick)]
    /\ UNCHANGED <<config, core_vars, not_pipelines>>

\* The two streams in any interleaving.
NextPipelines ==
    \E symbol \in Symbols, tick \in PipelineTicks :
        /\ sum_over([s \in Symbols |-> Len(streams[s])], Symbols)
               < MaxPipelineTicks
        /\ OnTick(symbol, tick)

SpecPipelines == InitPipelines /\ [][NextPipelines]_vars

\* --------------------------------------------------- the calls on a close
Trade(price, quantity, is_buyer_maker) ==
    [price |-> price, quantity |-> quantity,
     is_buyer_maker |-> is_buyer_maker]

\* The trades of a bucket: a small bar up on buying, a bar up on selling,
\* one large buy at one price, a wide bar, three levels of buying only, and
\* a bar of six levels, heavy selling at its lowest, that spikes and closes
\* low.
UpBar == <<Trade(1, 1, TRUE), Trade(2, 3, FALSE)>>
UpSellingBar == <<Trade(1, 2, FALSE), Trade(3, 3, TRUE)>>
FlatBuyBar == <<Trade(2, 3, FALSE)>>
WideBar == <<Trade(1, 1, TRUE), Trade(4, 2, FALSE)>>
StackedBar == <<Trade(1, 5, FALSE), Trade(2, 5, FALSE), Trade(3, 5, FALSE)>>
AbsorbedBar ==
    <<Trade(1, 25, TRUE), Trade(6, 1, FALSE), Trade(5, 1, FALSE),
      Trade(4, 1, FALSE), Trade(3, 1, FALSE), Trade(2, 1, FALSE)>>

BarShapes ==
    {UpBar, UpSellingBar, FlatBuyBar, WideBar, StackedBar, AbsorbedBar}

\* The k-th bucket of the run's fixed part.
PrefixBar(k) ==
    IF k = 1 THEN StackedBar
    ELSE IF k = 2 THEN UpBar
    ELSE IF k = 3 THEN WideBar
    ELSE IF k = 4 THEN UpSellingBar
    ELSE IF k = 5 THEN FlatBuyBar
    ELSE WideBar

\* The shapes the k-th bucket may take: SignalPrefix buckets are fixed, the
\* SignalTail buckets after them are free.
BarsAt(k) ==
    IF k <= SignalPrefix THEN {PrefixBar(k)}
    ELSE IF k <= SignalPrefix + SignalTail THEN BarShapes
    ELSE {}

\* The ticks that may come next: the next trade of the open bucket's shape,
\* or, the shape done, the first trade of the next bucket's.
BarTicks ==
    LET k == Len(completed_candles) + 1
        at(timestamp, t) ==
            [timestamp |-> timestamp, price |-> t.price,
             quantity |-> t.quantity, is_buyer_maker |-> t.is_buyer_maker]
    IN  IF current_candle = None
        THEN {at(0, bar[1]) : bar \in BarsAt(1)}
        ELSE {at(current_candle[1].timestamp, bar[Len(folded) + 1]) :
                 bar \in {b \in BarsAt(k) :
                             /\ Len(b) > Len(folded)
                             /\ SubSeq(b, 1, Len(folded)) = folded}}
             \cup {at(current_candle[1].timestamp + candle_ms, bar[1]) :
                      bar \in IF folded \in BarsAt(k) THEN BarsAt(k + 1)
                              ELSE {}}

InitCloseCalls ==
    /\ scale = 1
    /\ InitDefaults
    /\ InitEngine
    /\ InitCalls
    /\ InitComponents

\* One call of SignalDetector.analyze on the candle that just closed.
AnalyzeClosed ==
    \E r \in {analyze(Engine(current_candle, completed_candles,
                             cumulative_delta, cvd_history), returned[1])} :
        /\ current_candle' = r.fp.current_candle
        /\ completed_candles' = r.fp.completed_candles
        /\ cumulative_delta' = r.fp.cumulative_delta
        /\ cvd_history' = r.fp.cvd_history
        /\ analyzed' = Some([candle |-> returned[1], raised |-> r.raised,
                             signals |-> r.signals])
        /\ UNCHANGED <<config, last_tick, returned, va, stacks, signals,
                       trade, folded, closed_log, nticks, not_detectors>>

\* One call of update_swings on the last closed candles.
UpdateSwingsClosed ==
    \E all_candles \in {get_last_n_candles(
                            Engine(current_candle, completed_candles,
                                   cumulative_delta, cvd_history),
                            all_candles_n)} :
    \E ls \in {update_swings(LiquiditySweepDetector(_swing_highs,
                                                    _swing_lows),
                             all_candles)} :
        /\ _swing_highs' = ls._swing_highs
        /\ _swing_lows' = ls._swing_lows
        /\ swing_arg' = Some(all_candles)
        /\ sweep_ret' = None
        /\ UNCHANGED <<config, core_vars, not_sweep, sweep_window, sweep_fed,
                       sweep_calls>>

\* One call of detect on the candle that just closed and the one before.
DetectClosed ==
    \E prev \in {IF Len(completed_candles) >= 2
                 THEN Some(completed_candles[Len(completed_candles) - 1])
                 ELSE None} :
    \E r \in {detect(LiquiditySweepDetector(_swing_highs, _swing_lows),
                     returned[1], prev)} :
        /\ _swing_highs' = r.ls._swing_highs
        /\ _swing_lows' = r.ls._swing_lows
        /\ sweep_ret' = Some([candle |-> returned[1], prev_candle |-> prev,
                              ret |-> r.ret])
        /\ UNCHANGED <<config, core_vars, not_sweep, sweep_window, swing_arg,
                       sweep_fed, sweep_calls>>

\* The handler of the close returns: what the calls returned is let go.
ReturnFromClose ==
    /\ analyzed # None \/ sweep_ret # None
    /\ analyzed' = None
    /\ sweep_ret' = None
    /\ UNCHANGED <<config, core_vars, regime_vars, profile_vars,
                   pipeline_vars, _swing_highs, _swing_lows, sweep_window,
                   swing_arg, sweep_fed, sweep_calls>>

\* The ticks arrive; each close is followed by calls on the closed candle.
NextCloseCalls ==
    \/ \E tick \in BarTicks :
          analyzed = None /\ sweep_ret = None /\ ProcessTick(tick)
    \/ returned # None /\ AnalyzeClosed
    \/ returned # None /\ UpdateSwingsClosed
    \/ returned # None /\ DetectClosed
    \/ returned # None /\ GetValueArea(returned[1], 70)
    \/ ReturnFromClose

SpecCloseCalls == InitCloseCalls /\ [][NextCloseCalls]_vars

\* ===================================================== the claims' terms
\* What the claims say, stated without the engine's own helpers.
BucketStart(tick) == tick.timestamp - (tick.timestamp % candle_ms)

LevelKey(price) == price - (price % scale)

\* The tick opens no candle and closes none: it lands in the open bucket.
SameBucket(tick) ==
    /\ current_candle # None
    /\ BucketStart(tick) = current_candle[1].timestamp

\* The tick's bucket lies after the open candle's.
Closes(tick) ==
    /\ current_candle # None
    /\ BucketStart(tick) > current_candle[1].timestamp

SetMax(S) == CHOOSE x \in S : \A y \in S : y <= x

SetMin(S) == CHOOSE x \in S : \A y \in S : x <= y

PricesOf(ticks) == {ticks[i].price : i \in 1..Len(ticks)}

RECURSIVE SumQty(_, _, _)
\* The quantity of the buy (or sell) ticks among `ticks` that fall on a
\* level of `keys`.
SumQty(ticks, buy, keys) ==
    IF ticks = <<>> THEN 0
    ELSE (IF is_buy(Head(ticks)) = buy /\ LevelKey(Head(ticks).price) \in keys
          THEN Head(ticks).quantity ELSE 0)
         + SumQty(Tail(ticks), buy, keys)

AllKeys(ticks) == {LevelKey(ticks[i].price) : i \in 1..Len(ticks)}

\* The level of `levels` at `price`, if any.
LevelAt(levels, price) ==
    LET at == {i \in 1..Len(levels) : levels[i].price = price}
    IN  IF at = {} THEN None ELSE Some(levels[CHOOSE i \in at : TRUE])

LevelKeys(levels) == {levels[i].price : i \in 1..Len(levels)}

\* `candle` holds the ticks `ticks`, all of them and nothing else.
ReflectsOnly(candle, ticks) ==
    /\ ticks # <<>>
    /\ candle.open = ticks[1].price
    /\ candle.close = ticks[Len(ticks)].price
    /\ candle.high = SetMax(PricesOf(ticks))
    /\ candle.low = SetMin(PricesOf(ticks))
    /\ candle.total_ask = SumQty(ticks, TRUE, AllKeys(ticks))
    /\ candle.total_bid = SumQty(ticks, FALSE, AllKeys(ticks))
    /\ candle.total_trades = Len(ticks)
    /\ LevelKeys(candle.levels) = AllKeys(ticks)
    /\ Len(candle.levels) = Cardinality(AllKeys(ticks))
    /\ \A i \in 1..Len(candle.levels) :
          LET l == candle.levels[i]
          IN  /\ l.ask_volume = SumQty(ticks, TRUE, {l.price})
              /\ l.bid_volume = SumQty(ticks, FALSE, {l.price})

\* ================================================================ claims

\* C1: a tick of a later bucket makes process_tick return exactly the
\* candle that was open, append it to the history and add its delta to the
\* cumulative delta; no call changes a candle already in the history.
C1_CloseReturnsOpenCandle ==
    [][nticks' # nticks =>
        LET tick == last_tick'[1]
            added == IF Closes(tick) THEN 1 ELSE 0
            evicted == Len(completed_candles) + added
                       - Len(completed_candles')
        IN  /\ Closes(tick) =>
                /\ returned' = current_candle
                /\ completed_candles' # <<>>
                /\ completed_candles'[Len(completed_candles')]
                       = current_candle[1]
                /\ cumulative_delta' = cumulative_delta
                       + (returned'[1].total_ask - returned'[1].total_bid)
            /\ evicted \in 0..1
            /\ \A i \in (evicted + 1)..Len(completed_candles) :
                   completed_candles'[i - evicted] = completed_candles[i]
      ]_vars

\* C1's case: a second close, with the first closed candle still held.
C1_Witness ==
    /\ returned # None
    /\ Len(completed_candles) = 2
    /\ completed_candles[2] = returned[1]

\* C2: a tick of the open candle's bucket returns nothing and changes one
\* level only, the one keyed floor(price/scale)*scale; afterwards high and
\* low are the largest and smallest price folded so far and close is the
\* tick's price.
C2_SameBucketFoldsOneLevel ==
    [][(nticks' # nticks /\ SameBucket(last_tick'[1])) =>
        LET tick == last_tick'[1]
            before == current_candle[1]
            after == current_candle'[1]
            key == LevelKey(tick.price)
            old == LevelAt(before.levels, key)
            new == LevelAt(after.levels, key)
        IN  /\ returned' = None
            /\ completed_candles' = completed_candles
            /\ \A p \in (LevelKeys(before.levels)
                         \cup LevelKeys(after.levels)) \ {key} :
                   LevelAt(after.levels, p) = LevelAt(before.levels, p)
            /\ new # None
            /\ new[1].trades = (IF old = None THEN 0 ELSE old[1].trades) + 1
            /\ level_total_volume(new[1])
                   = (IF old = None THEN 0 ELSE level_total_volume(old[1]))
                     + tick.quantity
            /\ after.high = SetMax(PricesOf(folded'))
            /\ after.low = SetMin(PricesOf(folded'))
            /\ after.close = tick.price
      ]_vars

\* C2's case: three ticks in one candle, on two levels at least.
C2_Witness ==
    /\ current_candle # None
    /\ Len(folded) = 3
    /\ Len(current_candle[1].levels) >= 2
    /\ current_candle[1].high > current_candle[1].low

\* C3: the tick that closes a candle lands in the new candle: the returned
\* candle holds only the ticks before it, and the new candle starts at the
\* tick's bucket with the tick's price as open, one trade and the tick's
\* quantity on its side.  The first tick opens a candle and returns nothing.
C3_ClosingTickOpensNewCandle ==
    [][nticks' # nticks =>
        LET tick == last_tick'[1] IN
        /\ Closes(tick) =>
            /\ returned' # None
            /\ returned'[1].timestamp = current_candle[1].timestamp
            /\ ReflectsOnly(returned'[1], folded)
            /\ current_candle' # None
            /\ current_candle'[1].timestamp = BucketStart(tick)
            /\ ReflectsOnly(current_candle'[1], <<Folded(tick)>>)
            /\ current_candle'[1].total_trades = 1
            /\ current_candle'[1].open = tick.price
            /\ current_candle'[1].total_ask
                   = (IF tick.is_buyer_maker THEN 0 ELSE tick.quantity)
            /\ current_candle'[1].total_bid
                   = (IF tick.is_buyer_maker THEN tick.quantity ELSE 0)
        /\ current_candle = None =>
            /\ returned' = None
            /\ current_candle' # None
            /\ current_candle'[1].timestamp = BucketStart(tick)
            /\ current_candle'[1].open = tick.price
            /\ ReflectsOnly(current_candle'[1], <<Folded(tick)>>)
      ]_vars

\* C3's case: a close after two ticks, the closing tick alone in the new
\* candle.
C3_Witness ==
    /\ returned # None
    /\ returned[1].total_trades = 2
    /\ current_candle[1].total_trades = 1
    /\ current_candle[1].open # returned[1].close

RECURSIVE SumSeq(_)
SumSeq(seq) == IF seq = <<>> THEN 0 ELSE Head(seq) + SumSeq(Tail(seq))

\* The total volume of the levels of `candle` priced in `prices`.
VolumeAt(candle, prices) ==
    SumSeq([i \in 1..Len(candle.levels) |->
               IF candle.levels[i].price \in prices
               THEN candle.levels[i].bid_volume + candle.levels[i].ask_volume
               ELSE 0])

SeqSet(seq) == {seq[i] : i \in 1..Len(seq)}

\* C6: for a candle with a level and any target percentage, the levels
\* get_value_area includes carry at least that percentage of the candle's
\* total volume, and low <= poc <= high with poc a level of largest volume.
C6_ValueAreaCoversTarget ==
    va # None =>
        LET c == va[1].candle
            r == va[1].result
            inc == SeqSet(r.included_prices)
        IN  c.levels # <<>> =>
              /\ inc \subseteq LevelKeys(c.levels)
              /\ Cardinality(inc) = Len(r.included_prices)
              /\ VolumeAt(c, inc) * 100
                     >= (c.total_bid + c.total_ask) * va[1].pct
              /\ r.low <= r.poc
              /\ r.poc <= r.high
              /\ r.low = SetMin(inc)
              /\ r.high = SetMax(inc)
              /\ r.poc \in inc
              /\ \A i \in 1..Len(c.levels) :
                     VolumeAt(c, {c.levels[i].price}) <= VolumeAt(c, {r.poc})

\* C6's case: a three-level candle whose value area at 70% takes two levels
\* and leaves one out.
C6_Witness ==
    /\ va # None
    /\ Len(va[1].candle.levels) = 3
    /\ va[1].pct = 70
    /\ Len(va[1].result.included_prices) = 2

\* C7: every run get_stacked_imbalances reports is at least stacked_min
\* long, and no two runs of one scan (buy or sell) share a price level.
C7_StackedRunsLongAndDisjoint ==
    stacks # None =>
        \A runs \in {stacks[1].result.buy, stacks[1].result.sell} :
            /\ \A i \in 1..Len(runs) : Len(runs[i]) >= stacked_min
            /\ \A i, j \in 1..Len(runs) :
                   i # j => SeqSet(runs[i]) \cap SeqSet(runs[j]) = {}

\* C7's case: two buy runs in one scan, parted by a level that breaks them.
C7_Witness ==
    /\ stacks # None
    /\ stacked_min = 1
    /\ Len(stacks[1].result.buy) = 2
    /\ Len(stacks[1].candle.levels) = 3

\* The last n entries of a sequence.
LastN(seq, n) ==
    IF Len(seq) <= n THEN seq ELSE SubSeq(seq, Len(seq) - n + 1, Len(seq))

\* C4: the candle history and the CVD history have one length, at most
\* 500; they hold the latest closes in close order, the oldest evicted
\* first, and each CVD entry is the cumulative delta as it stood right after
\* its candle closed.
C4_ParallelBoundedHistories ==
    LET kept == LastN(closed_log, 500)
    IN  /\ Len(completed_candles) = Len(cvd_history)
        /\ Len(completed_candles) <= 500
        /\ Len(completed_candles) = Len(kept)
        /\ \A i \in 1..Len(kept) :
               /\ completed_candles[i] = kept[i].candle
               /\ cvd_history[i] = kept[i].cvd

\* C4's case: more than 500 closes, so the oldest candle has been evicted.
C4_Witness ==
    /\ Len(closed_log) > 500
    /\ Len(completed_candles) = 500
    /\ completed_candles[1] # closed_log[1].candle

\* C5: for every candle held and every level of it, delta is ask volume
\* minus bid volume and total volume is bid volume plus ask volume.
C5_DeltaAndVolume ==
    \A c \in HeldCandles :
        /\ candle_delta(c) = c.total_ask - c.total_bid
        /\ candle_total_volume(c) = c.total_bid + c.total_ask
        /\ \A i \in 1..Len(c.levels) :
              /\ level_delta(c.levels[i])
                     = c.levels[i].ask_volume - c.levels[i].bid_volume
              /\ level_total_volume(c.levels[i])
                     = c.levels[i].bid_volume + c.levels[i].ask_volume

\* C5's case: a closed candle with both sides traded and a nonzero delta.
C5_Witness ==
    \E i \in 1..Len(completed_candles) :
        /\ completed_candles[i].total_ask > 0
        /\ completed_candles[i].total_bid > completed_candles[i].total_ask

\* ------------------------------------------------- the trade levels' calls
\* Two more shapes of a bucket: one sell at one price, and a bar whose
\* heaviest level is its lowest and that closes three levels above it.
FlatSellBar == <<Trade(1, 2, TRUE)>>
PocFarBar == <<Trade(1, 3, TRUE), Trade(4, 1, FALSE)>>

LevelBars == {FlatBuyBar, FlatSellBar, UpBar, PocFarBar}

\* The shapes the k-th bucket may take; the bucket after the last one only
\* closes it.
LevelBarsAt(k) == IF k <= MaxLevelBars + 1 THEN LevelBars ELSE {}

LevelTicks ==
    LET k == Len(completed_candles) + 1
        at(timestamp, t) ==
            [timestamp |-> timestamp, price |-> t.price,
             quantity |-> t.quantity, is_buyer_maker |-> t.is_buyer_maker]
    IN  IF current_candle = None
        THEN {at(0, bar[1]) : bar \in LevelBarsAt(1)}
        ELSE {at(current_candle[1].timestamp, bar[Len(folded) + 1]) :
                 bar \in {b \in LevelBarsAt(k) :
                             /\ Len(b) > Len(folded)
                             /\ SubSeq(b, 1, Len(folded)) = folded}}
             \cup {at(current_candle[1].timestamp + candle_ms, bar[1]) :
                      bar \in IF folded \in LevelBarsAt(k)
                              THEN LevelBarsAt(k + 1) ELSE {}}

\* Signal lists that trade: a reversal and a poc_reversion of each side, and
\* one that does not.
LevelSignalLists ==
    {<<OrderFlowSignal(STACKED_IMBALANCE_BUY, 100),
       OrderFlowSignal(DELTA_DIVERGENCE_BULL, 100)>>,
     <<OrderFlowSignal(STACKED_IMBALANCE_SELL, 100),
       OrderFlowSignal(DELTA_DIVERGENCE_BEAR, 100)>>,
     <<OrderFlowSignal(CVD_CONFIRMS_UP, 100),
       OrderFlowSignal(POC_MAGNET_LONG, 100)>>,
     <<OrderFlowSignal(CVD_CONFIRMS_DOWN, 100),
       OrderFlowSignal(POC_MAGNET_SHORT, 100)>>,
     <<OrderFlowSignal(CVD_CONFIRMS_UP, 100)>>}

InitLevels ==
    /\ scale = 1
    /\ imbalance_ratio = default_imbalance_ratio
    /\ imbalance_volume = default_imbalance_volume
    /\ stacked_min = default_stacked_imbalance_min
    /\ min_score \in {0, default_min_confluence_score}
    /\ InitEngine
    /\ InitCalls
    /\ InitComponents

\* One call of evaluate on the candle that just closed.
EvaluateClosed(sigs) ==
    /\ signals' = sigs
    /\ trade' = Some([candle |-> returned[1],
                      bull_score |-> _compute_directional_score(
                                         sigs, BULLISH_SIGNALS),
                      bear_score |-> _compute_directional_score(
                                         sigs, BEARISH_SIGNALS),
                      result |-> evaluate(
                                     Engine(current_candle, completed_candles,
                                            cumulative_delta, cvd_history),
                                     returned[1], sigs)])
    /\ UNCHANGED <<config, current_candle, completed_candles,
                   cumulative_delta, cvd_history, last_tick, returned, va,
                   stacks, folded, closed_log, nticks, components>>

\* The handler of the close returns: the signals and the trade are let go.
ReturnFromEvaluate ==
    /\ signals' = <<>>
    /\ trade' = None
    /\ UNCHANGED <<config, current_candle, completed_candles,
                   cumulative_delta, cvd_history, last_tick, returned, va,
                   stacks, folded, closed_log, nticks, components>>

NextLevels ==
    \/ \E tick \in LevelTicks : trade = None /\ ProcessTick(tick)
    \/ \E sigs \in LevelSignalLists :
          returned # None /\ trade = None /\ EvaluateClosed(sigs)
    \/ trade # None /\ ReturnFromEvaluate

SpecLevels == InitLevels /\ [][NextLevels]_vars

\* ------------------------------------------- the strategy claims' terms
\* The positions of `sigs` whose type is in `types`.
RelevantAt(sigs, types) == {i \in 1..Len(sigs) : sigs[i].type \in types}

TypesAt(sigs, at) == {sigs[i].type : i \in at}

DirectionTypes(side) == IF side = BUY THEN BULLISH_SIGNALS ELSE BEARISH_SIGNALS

\* The score the call computed for `side`.
ScoreFor(call, side) ==
    IF side = BUY THEN call.bull_score ELSE call.bear_score

Returned(call, side) == call.result # None /\ call.result[1].side = side

RECURSIVE SumStrength(_)
SumStrength(sigs) ==
    IF sigs = <<>> THEN 0 ELSE Head(sigs).strength + SumStrength(Tail(sigs))

\* The weight of a signal type, in tenths, by the detector it comes from.
WeightTenths(type) ==
    IF type \in {STACKED_IMBALANCE_BUY, STACKED_IMBALANCE_SELL} THEN 13
    ELSE IF type \in {DELTA_DIVERGENCE_BULL, DELTA_DIVERGENCE_BEAR} THEN 12
    ELSE IF type \in {ABSORPTION_SUPPORT, ABSORPTION_RESISTANCE} THEN 11
    ELSE IF type \in {EXHAUSTION_BULL, EXHAUSTION_BEAR} THEN 10
    ELSE IF type \in {CVD_CONFIRMS_UP, CVD_CONFIRMS_DOWN} THEN 8
    ELSE 7

RECURSIVE SumWeighted(_)
\* Ten times the sum of strength x weight over `sigs`.
SumWeighted(sigs) ==
    IF sigs = <<>> THEN 0
    ELSE Head(sigs).strength * WeightTenths(Head(sigs).type)
         + SumWeighted(Tail(sigs))

\* Only bullish signals, of exactly three distinct types, whose strengths
\* average 80, under a minimum confluence score of 65.
ThreeBullishTypesAt80 ==
    /\ min_score = 65
    /\ signals # <<>>
    /\ \A i \in 1..Len(signals) : signals[i].type \in BULLISH_SIGNALS
    /\ Cardinality(TypesAt(signals, 1..Len(signals))) = 3
    /\ SumStrength(signals) = 80 * Len(signals)

\* C8: a direction with fewer than 2 relevant signals, or with relevant
\* signals of fewer than 2 distinct types, scores exactly 0; and evaluate
\* returns no TradeSignal of a direction whose score is 0.
C8_ZeroScoreNoTrade ==
    trade # None =>
        \A side \in {BUY, SELL} :
            LET at == RelevantAt(signals, DirectionTypes(side))
                score == ScoreFor(trade[1], side)
            IN  /\ (Cardinality(at) < 2
                    \/ Cardinality(TypesAt(signals, at)) < 2)
                       => score.num = 0
                /\ score.num = 0 => ~Returned(trade[1], side)

\* The call had two bullish signals of one type and a threshold of 0: the
\* bullish score is 0 and no long signal came back.
C8_Witness ==
    /\ trade # None
    /\ min_score = 0
    /\ Cardinality(RelevantAt(signals, BULLISH_SIGNALS)) >= 2
    /\ Cardinality(TypesAt(signals, RelevantAt(signals, BULLISH_SIGNALS))) = 1
    /\ trade[1].bull_score.num = 0
    /\ ~Returned(trade[1], BUY)

\* C9 as stated: with threshold 65, every list of only bullish signals of
\* exactly 3 distinct types whose strengths average 80 yields a buy.
C9_AnyThreeTypesBuy ==
    (trade # None /\ ThreeBullishTypesAt80) => Returned(trade[1], BUY)

\* C9, amended: with threshold 65, a list of only bullish signals of exactly
\* 3 distinct types whose strengths average 80 yields a buy when the mean of
\* strength x weight over the list is at least 76.15, and yields nothing
\* when that mean is at most 76.14.
C9_ThreeTypesBuyByWeightedMean ==
    (trade # None /\ ThreeBullishTypesAt80) =>
        /\ SumWeighted(signals) * 10 >= 7615 * Len(signals)
              => Returned(trade[1], BUY)
        /\ SumWeighted(signals) * 10 <= 7614 * Len(signals)
              => trade[1].result = None

\* Three bullish types of unequal strengths averaging 80, the lightest type
\* among them, and a buy came back.
C9_Witness ==
    /\ trade # None
    /\ ThreeBullishTypesAt80
    /\ \E i \in 1..Len(signals) : signals[i].type = POC_MAGNET_LONG
    /\ \E i \in 1..Len(signals) : signals[i].strength # 80
    /\ Returned(trade[1], BUY)

\* C10 as stated: evaluate returns at most one TradeSignal; a buy only if
\* the bullish score exceeds the threshold and the bearish score, a sell
\* only if the bearish score exceeds the threshold and the bullish score,
\* and nothing otherwise (equal scores, empty list).
C10_TradeOnlyAboveThreshold ==
    trade # None =>
        LET call == trade[1]
            bull == call.bull_score
            bear == call.bear_score
        IN  /\ Len(call.result) <= 1
            /\ Returned(call, BUY) =>
                  /\ bull.num > min_score * bull.den
                  /\ bull.num * bear.den > bear.num * bull.den
            /\ Returned(call, SELL) =>
                  /\ bear.num > min_score * bear.den
                  /\ bear.num * bull.den > bull.num * bear.den
            /\ (signals = <<>> \/ bull.num * bear.den = bear.num * bull.den)
                  => call.result = None

\* C10, amended: evaluate returns at most one TradeSignal; a buy only if the
\* bullish score is at least the threshold and exceeds the bearish score, a
\* sell only if the bearish score is at least the threshold and exceeds the
\* bullish score, and nothing otherwise (equal scores, empty list).
C10_TradeOnlyAtOrAboveThreshold ==
    trade # None =>
        LET call == trade[1]
            bull == call.bull_score
            bear == call.bear_score
        IN  /\ Len(call.result) <= 1
            /\ Returned(call, BUY) =>
                  /\ bull.num >= min_score * bull.den
                  /\ bull.num * bear.den > bear.num * bull.den
            /\ Returned(call, SELL) =>
                  /\ bear.num >= min_score * bear.den
                  /\ bear.num * bull.den > bull.num * bear.den
            /\ (signals = <<>> \/ bull.num * bear.den = bear.num * bull.den)
                  => call.result = None

\* Both directions scored above 0, the bullish score the higher, and a buy
\* came back.
C10_Witness ==
    /\ trade # None
    /\ trade[1].bear_score.num > 0
    /\ trade[1].bull_score.num * trade[1].bear_score.den
          > trade[1].bear_score.num * trade[1].bull_score.den
    /\ Returned(trade[1], BUY)

\* The levels of `candle` of the largest total volume.
LargestLevels(candle) ==
    {candle.levels[i].price : i \in
        {i \in 1..Len(candle.levels) :
            \A j \in 1..Len(candle.levels) :
                VolumeAt(candle, {candle.levels[j].price})
                    <= VolumeAt(candle, {candle.levels[i].price})}}

\* C20: for every candle with a level, poc and the poc of get_value_area
\* are the lowest-priced of the levels of largest total volume, whatever the
\* order the ticks created the levels in; a candle without levels reports
\* its close.
C20_PocLowestOfLargest ==
    /\ \A c \in HeldCandles :
          poc(c) = IF c.levels = <<>> THEN c.close
                   ELSE SetMin(LargestLevels(c))
    /\ va # None =>
          va[1].result.poc =
              IF va[1].candle.levels = <<>> THEN va[1].candle.close
              ELSE SetMin(LargestLevels(va[1].candle))

\* --------------------------------------------- the regime claims' terms
\* The candles the detector looks at: the last regime_lookback of the list.
AnalysedWindow == last_n(regime_window, regime_lookback)

VolumeOf(candle) == candle.total_bid + candle.total_ask

\* The mean volume of the last 3 candles is below 0.3 times the mean volume
\* of the window: sum(last 3) / 3 < 3/10 * sum(all) / n.
VolumeHealthLow(window) ==
    LET n == Len(window)
    IN  10 * n * SumSeq([i \in 1..3 |-> VolumeOf(window[n - 3 + i])])
            < 9 * SumSeq([i \in 1..n |-> VolumeOf(window[i])])

VolatilityHigh(window) == volatility_gt(_calc_volatility(window), 8, 1000)

\* The trend of the window, above 0.0005 or below -0.0005.
TrendUp(window) ==
    LET trend == _calc_trend_strength(window)
    IN  trend.num * 10000 > 5 * trend.den

TrendDown(window) ==
    LET trend == _calc_trend_strength(window)
    IN  trend.num * 10000 < 0 - 5 * trend.den

\* C11: for a window of at least 5 candles the regime is the first match of:
\* volume health below 0.3 gives low_volume, whatever the volatility and
\* the trend; volatility above 0.008 gives volatile; a trend above 0.0005 in
\* size gives trending_up or trending_down by its sign; otherwise ranging.
C11_RegimeByFirstMatch ==
    (regime_ret # None /\ Len(regime_window) >= 5) =>
        regime_ret[1].regime =
            IF VolumeHealthLow(AnalysedWindow) THEN LOW_VOLUME
            ELSE IF VolatilityHigh(AnalysedWindow) THEN VOLATILE
            ELSE IF TrendUp(AnalysedWindow) THEN TRENDING_UP
            ELSE IF TrendDown(AnalysedWindow) THEN TRENDING_DOWN
            ELSE RANGING

\* A window of low volume health that is volatile and trending as well was
\* classified low_volume.
C11_Witness ==
    /\ regime_ret # None
    /\ Len(regime_window) >= 5
    /\ VolumeHealthLow(AnalysedWindow)
    /\ VolatilityHigh(AnalysedWindow)
    /\ TrendUp(AnalysedWindow)
    /\ regime_ret[1].regime = LOW_VOLUME

\* C12: after any sequence of analyze calls, on windows of any length,
\* should_trade() is false exactly when the regime the latest call returned
\* is low_volume.
C12_NoTradeIffLowVolume ==
    regime_ret # None =>
        (~regime_ret[1].should_trade <=> regime_ret[1].regime = LOW_VOLUME)

\* C15: after update_swings(W) the tracked swing highs and lows depend on W
\* alone, for windows of every length: a detector with earlier calls behind
\* it holds what a new detector holds after the same call.
C15_SwingsDependOnWindowOnly ==
    swing_arg # None =>
        LiquiditySweepDetector(_swing_highs, _swing_lows)
            = update_swings(LiquiditySweepDetector(<<>>, <<>>), swing_arg[1])

\* ---------------------------------------------- the profile claims' terms
\* The volume the levels of `candles` carry at the profile level `price`.
CoveredVolumeAt(candles, price) ==
    SumSeq([k \in 1..Len(candles) |->
               SumSeq([i \in 1..Len(candles[k].levels) |->
                          IF LevelKey(candles[k].levels[i].price) = price
                          THEN candles[k].levels[i].bid_volume
                                   + candles[k].levels[i].ask_volume
                          ELSE 0])])

CoveredLevels(candles) ==
    UNION {{LevelKey(candles[k].levels[i].price) :
               i \in 1..Len(candles[k].levels)} : k \in 1..Len(candles)}

\* `profile` holds the per-level volume of `candles`, no more and no less.
Holds(profile, candles) ==
    /\ {profile._levels[i].price : i \in 1..Len(profile._levels)}
           = CoveredLevels(candles)
    /\ \A i, j \in 1..Len(profile._levels) :
           profile._levels[i].price = profile._levels[j].price => i = j
    /\ \A i \in 1..Len(profile._levels) :
           profile._levels[i].volume
               = CoveredVolumeAt(candles, profile._levels[i].price)
    /\ profile_total_volume(profile)
           = SumSeq([k \in 1..Len(candles) |->
                        candles[k].total_bid + candles[k].total_ask])

\* The last n of seq, for n >= 0.
Latest(seq, n) == SubSeq(seq, Len(seq) - n + 1, Len(seq))

TwiceClampedSum(result) ==
    LET twice == 2 * result.daily.bias + 3 * result.weekly.bias
    IN  IF twice > 30 THEN 30 ELSE IF twice < 0 - 30 THEN 0 - 30 ELSE twice

\* C17 as stated: for every price and every state of the profiles,
\* get_combined_bias returns the daily bias plus 1.5 times the weekly bias,
\* clamped to [-15, 15].
C17_CombinedIsClampedSum ==
    bias_ret # None =>
        2 * bias_ret[1].result.bias = TwiceClampedSum(bias_ret[1].result)

\* The whole number nearest to twice / 2 between it and zero.
TowardsZero(twice) ==
    CHOOSE n \in -40..40 :
        /\ (twice >= 0 => 2 * n <= twice /\ twice < 2 * n + 2)
        /\ (twice < 0 => 2 * n >= twice /\ twice > 2 * n - 2)

\* C17, amended: get_combined_bias returns the daily bias plus 1.5 times
\* the weekly bias with its fraction dropped (rounded towards zero), then
\* clamped to [-15, 15]; the daily and weekly parts are the biases of the
\* two profiles at the price.
C17_CombinedIsTruncatedClampedSum ==
    bias_ret # None =>
        LET result == bias_ret[1].result
            whole == TowardsZero(2 * result.daily.bias
                                     + 3 * result.weekly.bias)
        IN  /\ result.daily = get_signal_bias(daily, bias_ret[1].price)
            /\ result.weekly = get_signal_bias(weekly, bias_ret[1].price)
            /\ result.bias = IF whole > 15 THEN 15
                             ELSE IF whole < 0 - 15 THEN 0 - 15 ELSE whole

\* A negative sum with a half was rounded up, towards zero, and profiles
\* of different biases were combined.
C17_Witness ==
    /\ bias_ret # None
    /\ bias_ret[1].result.daily.bias # bias_ret[1].result.weekly.bias
    /\ 2 * bias_ret[1].result.daily.bias
           + 3 * bias_ret[1].result.weekly.bias \in {0 - 25, 0 - 15, 0 - 5, 0 - 1}
    /\ 2 * bias_ret[1].result.bias
           > 2 * bias_ret[1].result.daily.bias
               + 3 * bias_ret[1].result.weekly.bias

\* The profiles of the last call, each with the bias it gave.
BiasCalls ==
    IF bias_ret = None THEN {}
    ELSE {[profile |-> daily, price |-> bias_ret[1].price,
           bias |-> bias_ret[1].result.daily.bias],
          [profile |-> weekly, price |-> bias_ret[1].price,
           bias |-> bias_ret[1].result.weekly.bias]}

\* C18 as stated: for a non-empty profile, get_signal_bias returns 0
\* whenever the price is inside the value area, +8 when it is below the
\* value-area low and -8 when it is above the value-area high.
C18_BiasByValueArea ==
    \A call \in BiasCalls :
        call.profile._levels # <<>> =>
            LET value_area == profile_get_value_area(call.profile)
            IN  call.bias = IF call.price < value_area.low THEN 8
                            ELSE IF call.price > value_area.high THEN 0 - 8
                            ELSE 0

\* The price is less than 0.05% away from the POC.
AtPoc(price, poc_price) ==
    LET away == IF price >= poc_price THEN price - poc_price
                ELSE poc_price - price
    IN  away * 10000 < 5 * poc_price

\* The price is more than 0.2% below, or above, the POC.
WellBelowPoc(price, poc_price) == (poc_price - price) * 1000 > 2 * poc_price
WellAbovePoc(price, poc_price) == (price - poc_price) * 1000 > 2 * poc_price

\* C18, amended: for a non-empty profile whose POC is not 0,
\* get_signal_bias returns 0 for the price 0 and for a price less than
\* 0.05% away from the POC, wherever the value area lies; otherwise +8 below
\* the value-area low and -8 above the value-area high; otherwise, inside
\* the value area, +5 when the price is more than 0.2% below the POC, -5
\* when it is more than 0.2% above it, and 0 in between.
C18_BiasByPocThenValueArea ==
    \A call \in BiasCalls :
        LET value_area == profile_get_value_area(call.profile)
        IN  (call.profile._levels # <<>> /\ value_area.poc # 0) =>
                call.bias =
                    IF call.price = 0 \/ AtPoc(call.price, value_area.poc)
                    THEN 0
                    ELSE IF call.price < value_area.low THEN 8
                    ELSE IF call.price > value_area.high THEN 0 - 8
                    ELSE IF WellBelowPoc(call.price, value_area.poc) THEN 5
                    ELSE IF WellAbovePoc(call.price, value_area.poc)
                    THEN 0 - 5
                    ELSE 0

\* A price below the value-area low of one profile, but next to its POC,
\* got 0, and the same price, inside the value area of the other profile,
\* got -5.
C18_Witness ==
    /\ \E call \in BiasCalls :
           /\ call.profile._levels # <<>>
           /\ call.price # 0
           /\ call.price < profile_get_value_area(call.profile).low
           /\ call.bias = 0
    /\ \E call \in BiasCalls :
           /\ call.price >= profile_get_value_area(call.profile).low
           /\ call.price <= profile_get_value_area(call.profile).high
           /\ call.bias = 0 - 5

RECURSIVE Replay(_, _)
\* The engine `fp` after the ticks of `ticks`, one process_tick call each.
Replay(fp, ticks) ==
    IF ticks = <<>> THEN fp
    ELSE Replay(process_tick(fp, Head(ticks)).fp, Tail(ticks))

\* C19: pipelines of different symbols share no mutable state: in every
\* interleaving of the two streams each symbol's engine, its closed candles
\* and its CVD values among the rest, is the engine that processed the
\* symbol's own stream alone, so no tick of the other symbol changed it.
C19_PipelinesIndependent ==
    \A symbol \in Symbols :
        LET alone == Replay(Engine(None, <<>>, 0, <<>>), streams[symbol])
        IN  /\ pipelines[symbol].footprint.completed_candles
                   = alone.completed_candles
            /\ pipelines[symbol].footprint.cvd_history = alone.cvd_history
            /\ pipelines[symbol].footprint = alone

\* Both symbols have closed a candle, and their histories differ.
C19_Witness ==
    /\ \A symbol \in Symbols :
           pipelines[symbol].footprint.completed_candles # <<>>
    /\ \E s1, s2 \in Symbols :
           pipelines[s1].footprint.cvd_history
               # pipelines[s2].footprint.cvd_history

\* ------------------------------------------------- the call claims' terms
\* C13: SignalDetector.analyze (with StrategyEngine.evaluate,
\* get_value_area, detect and RegimeDetector.analyze) never raises, for any
\* closed candle and any history, a candle of zero price range included.
C13_AnalyzeNeverRaises ==
    analyzed # None => ~analyzed[1].raised


Present(types) == \E i \in 1..Len(signals) : signals[i].type \in types

AbsorptionTypes == {ABSORPTION_SUPPORT, ABSORPTION_RESISTANCE}
DivergenceTypes == {DELTA_DIVERGENCE_BULL, DELTA_DIVERGENCE_BEAR}
ExhaustionTypes == {EXHAUSTION_BULL, EXHAUSTION_BEAR}
ImbalanceTypes == {STACKED_IMBALANCE_BUY, STACKED_IMBALANCE_SELL}
CvdTypes == {CVD_CONFIRMS_UP, CVD_CONFIRMS_DOWN}
PocTypes == {POC_MAGNET_LONG, POC_MAGNET_SHORT}

\* C21: the archetype of every TradeSignal evaluate returns follows from the
\* types present in the whole input list, in this order: absorption,
\* divergence or exhaustion gives reversal; else a stacked imbalance with a
\* CVD or POC signal gives reversal; else a stacked imbalance gives breakout;
\* else a POC signal gives poc_reversion; else reversal.
C21_ArchetypeByPriority ==
    (trade # None /\ trade[1].result # None) =>
        LET strategy == trade[1].result[1].strategy
        IN  IF Present(AbsorptionTypes \cup DivergenceTypes
                           \cup ExhaustionTypes)
            THEN strategy = REVERSAL
            ELSE IF Present(ImbalanceTypes) /\ Present(CvdTypes \cup PocTypes)
            THEN strategy = REVERSAL
            ELSE IF Present(ImbalanceTypes) THEN strategy = BREAKOUT
            ELSE IF Present(PocTypes) THEN strategy = POC_REVERSION
            ELSE strategy = REVERSAL

\* A buy on CVD and POC signals came back as a reversal because the list
\* also held a bearish absorption signal.
C21_Witness ==
    /\ trade # None
    /\ Returned(trade[1], BUY)
    /\ Present({ABSORPTION_RESISTANCE})
    /\ ~Present({ABSORPTION_SUPPORT} \cup DivergenceTypes \cup ExhaustionTypes
                    \cup ImbalanceTypes)
    /\ trade[1].result[1].strategy = REVERSAL

\* C29: no TradeSignal evaluate returns has the breakout archetype, for any
\* signal list and any minimum confluence score: each is a reversal or a
\* poc_reversion.
C29_NeverBreakout ==
    (trade # None /\ trade[1].result # None) =>
        trade[1].result[1].strategy \in {REVERSAL, POC_REVERSION}

\* A trade came back on a list that holds a stacked imbalance and no
\* absorption, divergence or exhaustion signal, and one on a list of CVD and
\* POC signals alone: the first a reversal, the second a poc_reversion.
C29_Witness ==
    /\ trade # None
    /\ trade[1].result # None
    /\ Present(ImbalanceTypes)
    /\ ~Present(AbsorptionTypes \cup DivergenceTypes \cup ExhaustionTypes)
    /\ trade[1].result[1].strategy = REVERSAL


\* ---------------------------------------------- the level claims' terms
\* The trade the latest evaluate call returned, and the candle it was for.
Traded == trade # None /\ trade[1].result # None
TradeOf == trade[1].result[1]
CandleOf == trade[1].candle

\* The ranges of the last at most 10 closed candles at the call (no tick
\* arrives before the call returns).
LastRanges ==
    LET n == Len(completed_candles)
        from == IF n > 10 THEN n - 9 ELSE 1
    IN  [i \in 1..(n - from + 1) |->
            completed_candles[from + i - 1].high
                - completed_candles[from + i - 1].low]

SumOfRanges == SumSeq(LastRanges)
PositiveRanges == {i \in 1..Len(LastRanges) : LastRanges[i] > 0}

\* 0.2% of the close.
CloseShare == [num |-> CandleOf.close * 2, den |-> 1000]

\* The ATR proxy as the claim states it: the mean range of the last at most
\* 10 closed candles or, that being zero, the candle's range or, that being
\* zero too, 0.2% of the close.
StatedAtr ==
    IF SumOfRanges > 0 THEN [num |-> SumOfRanges, den |-> Len(LastRanges)]
    ELSE IF CandleOf.high - CandleOf.low > 0
    THEN [num |-> CandleOf.high - CandleOf.low, den |-> 1]
    ELSE CloseShare

\* The ATR proxy with the two conditions of the code: with 3 or more closed
\* candles the mean of the ranges above zero among the last at most 10,
\* with fewer the candle's own range; 0.2% of the close where that gives
\* nothing or zero.
MeanOfPositiveAtr ==
    IF Len(LastRanges) >= 3
    THEN IF PositiveRanges # {}
         THEN [num |-> SumOfRanges, den |-> Cardinality(PositiveRanges)]
         ELSE CloseShare
    ELSE IF CandleOf.high - CandleOf.low > 0
    THEN [num |-> CandleOf.high - CandleOf.low, den |-> 1]
    ELSE CloseShare

\* The stop and target distances of the trade's archetype for an ATR proxy:
\* tenths of the proxy, and for the poc_reversion target the distance of the
\* close to the candle's POC where that is the larger one.
StopDistance(atr) ==
    LET tenths == IF TradeOf.strategy = REVERSAL THEN 12
                  ELSE IF TradeOf.strategy = BREAKOUT THEN 8 ELSE 10
    IN  [num |-> atr.num * tenths, den |-> atr.den * 10]

TargetDistance(atr) ==
    LET tenths == IF TradeOf.strategy = REVERSAL THEN 20
                  ELSE IF TradeOf.strategy = BREAKOUT THEN 25 ELSE 15
        by_atr == [num |-> atr.num * tenths, den |-> atr.den * 10]
        to_poc == Abs(CandleOf.close - poc(CandleOf))
    IN  IF TradeOf.strategy = POC_REVERSION
           /\ to_poc * by_atr.den > by_atr.num
        THEN [num |-> to_poc, den |-> 1] ELSE by_atr

\* |level - entry| = distance
AtDistance(level, distance) ==
    Abs(level.num - TradeOf.entry_price * level.den) * distance.den
        = distance.num * level.den

\* level is a whole number of hundredths, at most half a hundredth away from
\* entry + sign * distance.
RoundedAtDistance(level, sign, distance) ==
    /\ 100 % level.den = 0
    /\ 200 * Abs(level.num * distance.den
                    - (TradeOf.entry_price * distance.den
                          + sign * distance.num) * level.den)
          <= level.den * distance.den

C28_LevelsOnTheirSides ==
    Traded =>
        LET entry == TradeOf.entry_price
            sl == TradeOf.stop_loss
            tp == TradeOf.take_profit
        IN  IF TradeOf.side = BUY
            THEN sl.num < entry * sl.den /\ entry * tp.den < tp.num
            ELSE tp.num < entry * tp.den /\ entry * sl.den < sl.num


\* ------------------------------------------ the exhaustion claim's terms
\* The closed candles at the analyze call (no tick arrives before the call
\* returns), the latest of them and the k before it.
LatestClosed == completed_candles[Len(completed_candles)]

Preceding(k) ==
    SubSeq(completed_candles, Len(completed_candles) - k,
           Len(completed_candles) - 1)

AbsDeltas(candles) ==
    SumSeq([i \in 1..Len(candles) |->
               Abs(candles[i].total_ask - candles[i].total_bid)])

Ranges(candles) ==
    SumSeq([i \in 1..Len(candles) |-> candles[i].high - candles[i].low])

\* |delta| / meanDelta > 1.5 and range / meanRange < 0.5 for the latest
\* closed candle against the means of the k candles before it.
ExhaustedAgainst(k) ==
    /\ Len(completed_candles) >= k + 1
    /\ AbsDeltas(Preceding(k)) > 0
    /\ Ranges(Preceding(k)) > 0
    /\ 2 * k * Abs(LatestClosed.total_ask - LatestClosed.total_bid)
          > 3 * AbsDeltas(Preceding(k))
    /\ 2 * k * (LatestClosed.high - LatestClosed.low) < Ranges(Preceding(k))

\* The exhaustion signals analyze passed on from detect_exhaustion.
ExhaustionReported ==
    IF analyzed[1].raised THEN {}
    ELSE {analyzed[1].signals[i].type : i \in
             {i \in 1..Len(analyzed[1].signals) :
                 analyzed[1].signals[i].type
                     \in {EXHAUSTION_BULL, EXHAUSTION_BEAR}}}

\* C22: detect_exhaustion reports exhaustion, in the direction of the sign
\* of the latest closed candle's delta, exactly when the candle's |delta| is
\* more than 1.5 times the mean |delta|, and its range less than 0.5 times
\* the mean range, of the 5 closed candles before it; with fewer than 6
\* closed candles it reports nothing.
C22_ExhaustionAgainstFiveBefore ==
    analyzed # None =>
        ExhaustionReported =
            IF ~ExhaustedAgainst(exhaustion_lookback) THEN {}
            ELSE IF LatestClosed.total_ask > LatestClosed.total_bid
            THEN {EXHAUSTION_BULL} ELSE {EXHAUSTION_BEAR}


\* ------------------------------------------------ the CVD claims' terms
\* The sum of the deltas of every candle closed so far, the evicted ones
\* included.
RECURSIVE ClosedDeltasFrom(_, _)
ClosedDeltasFrom(lo, hi) ==
    IF lo > hi THEN 0
    ELSE IF lo = hi
    THEN closed_log[lo].candle.total_ask - closed_log[lo].candle.total_bid
    ELSE LET mid == (lo + hi) \div 2
         IN  ClosedDeltasFrom(lo, mid) + ClosedDeltasFrom(mid + 1, hi)

ClosedDeltas == ClosedDeltasFrom(1, Len(closed_log))

\* C23: a process_tick call that returns nothing leaves the closed history,
\* the CVD history and the cumulative delta as they were, and the cumulative
\* delta changes in no other step than a call that closes a candle; in every
\* state the cumulative delta is the sum of the deltas of all candles closed
\* so far, evicted ones included, and, once a candle has closed, the last
\* entry of the CVD history.
C23_CumulativeDeltaAtCloseOnly ==
    /\ [](/\ cumulative_delta = ClosedDeltas
          /\ closed_log # <<>> =>
                cvd_history[Len(cvd_history)] = cumulative_delta)
    /\ [][/\ (nticks' # nticks /\ returned' = None) =>
                UNCHANGED <<completed_candles, cvd_history, cumulative_delta>>
          /\ cumulative_delta' # cumulative_delta =>
                (nticks' # nticks /\ returned' # None)]_vars

\* Candles have been evicted, a candle of negative delta has closed after
\* them, and the latest call returned nothing.
C23_Witness ==
    /\ Len(closed_log) > completed_maxlen
    /\ closed_log[Len(closed_log)].candle.total_ask
          < closed_log[Len(closed_log)].candle.total_bid
    /\ returned = None
    /\ cvd_history[Len(cvd_history)] = cumulative_delta


\* ------------------------------------------- the tick order claim's terms
\* The tick's bucket is the open candle's or an earlier one.
NotLater(tick) ==
    /\ current_candle # None
    /\ BucketStart(tick) <= current_candle[1].timestamp

\* C24: a tick whose bucket start is not greater than the open candle's, an
\* out-of-order tick of an earlier bucket included, closes nothing and is
\* folded into the open candle; so, whatever the order of the ticks, the
\* closed candles' timestamps increase strictly along the history, the open
\* candle's timestamp is greater than each of them, and a call closes at
\* most one candle (a skipped bucket leaves no candle).
C24_EarlierTickFoldsHistoryOrdered ==
    /\ [](/\ \A i \in 1..Len(completed_candles) :
                \A j \in 1..Len(completed_candles) :
                    i < j => completed_candles[i].timestamp
                                < completed_candles[j].timestamp
          /\ \A i \in 1..Len(completed_candles) :
                current_candle # None
                    /\ completed_candles[i].timestamp
                          < current_candle[1].timestamp)
    /\ [][nticks' # nticks =>
            LET tick == last_tick'[1] IN
            /\ NotLater(tick) =>
                  /\ returned' = None
                  /\ completed_candles' = completed_candles
                  /\ current_candle'[1].timestamp
                        = current_candle[1].timestamp
                  /\ ReflectsOnly(current_candle'[1],
                                  Append(folded, Folded(tick)))
            /\ Len(closed_log') <= Len(closed_log) + 1
            /\ Len(completed_candles') <= Len(completed_candles) + 1
      ]_vars

\* The latest tick came from a bucket before the open candle's and was
\* folded into the open candle as its second trade; nothing closed.
C24_Witness ==
    /\ current_candle # None
    /\ last_tick # None
    /\ BucketStart(last_tick[1]) < current_candle[1].timestamp
    /\ returned = None
    /\ completed_candles = <<>>
    /\ current_candle[1].total_trades = 2
    /\ current_candle[1].close = last_tick[1].price


\* --------------------------------------- the stacked runs claim's terms
\* The levels of the scanned candle in ascending price order.
Ascending ==
    LET levels == SeqSet(stacks[1].candle.levels)
    IN  CHOOSE s \in [1..Cardinality(levels) -> levels] :
            \A i, j \in DOMAIN s : i < j => s[i].price < s[j].price

\* The level carries the volume threshold and its ask:bid ratio (for sells
\* its bid:ask ratio) reaches the ratio threshold; a ratio over 0 is
\* infinite.
Imbalanced(level, buy) ==
    LET over == IF buy THEN level.ask_volume ELSE level.bid_volume
        under == IF buy THEN level.bid_volume ELSE level.ask_volume
    IN  /\ level.bid_volume + level.ask_volume >= imbalance_volume
        /\ IF under = 0 THEN over > 0 ELSE over >= imbalance_ratio * under

\* `run` is the prices of a maximal stretch of imbalanced levels of the
\* ascending order.
MaximalRun(run, buy) ==
    \E a \in 1..(Len(Ascending) + 1) :
        LET b == a + Len(run) - 1
        IN  /\ b <= Len(Ascending)
            /\ \A i \in 1..Len(run) :
                  /\ run[i] = Ascending[a + i - 1].price
                  /\ Imbalanced(Ascending[a + i - 1], buy)
            /\ a = 1 \/ ~Imbalanced(Ascending[a - 1], buy)
            /\ b = Len(Ascending) \/ ~Imbalanced(Ascending[b + 1], buy)

\* C25: every buy run get_stacked_imbalances reports is a maximal stretch of
\* levels, consecutive in ascending price order, that each reach the ratio
\* threshold and the volume threshold, and every sell run likewise with the
\* reverse ratio; so a level below the volume threshold is in no run and
\* parts the runs of both sides, and a level that fails one side's ratio
\* alone parts that side's runs only.
C25_RunsAreMaximalStretches ==
    stacks # None =>
        /\ \A i \in 1..Len(stacks[1].result.buy) :
               MaximalRun(stacks[1].result.buy[i], TRUE)
        /\ \A i \in 1..Len(stacks[1].result.sell) :
               MaximalRun(stacks[1].result.sell[i], FALSE)

\* A candle of three levels: a buy run of its lowest level, ended by the
\* second level, which fails the buy ratio and starts a sell run that the
\* third level extends.
C25_Witness ==
    /\ stacks # None
    /\ Len(Ascending) = 3
    /\ stacks[1].result.buy = <<<<Ascending[1].price>>>>
    /\ stacks[1].result.sell = <<<<Ascending[2].price, Ascending[3].price>>>>


\* ---------------------------------------------- the sweep claim's terms
\* The prices of the tracked swings, in the deque's order, that the candle
\* of the latest detect call hunted: it wicked through the level by at least
\* 0.05% of it and closed back, and the candle before had closed on the
\* same side.
HuntedHighs ==
    LET c == sweep_ret[1].candle
        prev == sweep_ret[1].prev_candle[1]
        hunted(swing) ==
            /\ c.high > swing.price
            /\ c.close < swing.price
            /\ prev.close < swing.price
            /\ (c.high - swing.price) * 100 * 100 >= 5 * swing.price
        swept == SelectSeq(_swing_highs, hunted)
    IN  [i \in 1..Len(swept) |-> swept[i].price]

HuntedLows ==
    LET c == sweep_ret[1].candle
        prev == sweep_ret[1].prev_candle[1]
        hunted(swing) ==
            /\ c.low < swing.price
            /\ c.close > swing.price
            /\ prev.close > swing.price
            /\ (swing.price - c.low) * 100 * 100 >= 5 * swing.price
        swept == SelectSeq(_swing_lows, hunted)
    IN  [i \in 1..Len(swept) |-> swept[i].price]

\* The levels of the reports of one type, in the order reported.
ReportedLevels(type) ==
    LET of_type(report) == report.type = type
        reports == SelectSeq(sweep_ret[1].ret, of_type)
    IN  [i \in 1..Len(reports) |-> reports[i].level]

\* C26: detect reports a bearish stop-hunt for a tracked swing high L
\* exactly when candle.high > L, candle.close < L, prev.close < L and
\* (candle.high - L) is at least 0.05% of L, a bullish one for a tracked
\* swing low symmetrically, and nothing else; no strength exceeds 100; and
\* without a previous candle it reports nothing.
C26_HuntsExactlySweptSwings ==
    sweep_ret # None =>
        IF sweep_ret[1].prev_candle = None THEN sweep_ret[1].ret = <<>>
        ELSE /\ ReportedLevels(BEAR_STOP_HUNT) = HuntedHighs
             /\ ReportedLevels(BULL_STOP_HUNT) = HuntedLows
             /\ Len(sweep_ret[1].ret) = Len(HuntedHighs) + Len(HuntedLows)
             /\ \A i \in 1..Len(sweep_ret[1].ret) :
                   sweep_ret[1].ret[i].strength.num
                       <= 100 * sweep_ret[1].ret[i].strength.den

\* The candle wicked through a tracked swing high by at least 0.05% of it
\* and closed back below it, as the candle before had: the first report is
\* the bearish stop-hunt of that level, its strength capped at 100.
C26_Witness ==
    /\ sweep_ret # None
    /\ sweep_ret[1].prev_candle # None
    /\ sweep_ret[1].ret # <<>>
    /\ sweep_ret[1].ret[1].type = BEAR_STOP_HUNT
    /\ sweep_ret[1].ret[1].strength = Fraction(100, 1)
    /\ \E i \in 1..Len(_swing_highs) :
          /\ sweep_ret[1].ret[1].level = _swing_highs[i].price
          /\ sweep_ret[1].candle.high > _swing_highs[i].price
          /\ sweep_ret[1].candle.close < _swing_highs[i].price
          /\ sweep_ret[1].prev_candle[1].close < _swing_highs[i].price


\* ----------------------------------------------- the totals claim's terms
\* The sums over a candle's levels.
LevelsAsk(candle) ==
    sum_over([i \in 1..Len(candle.levels) |-> candle.levels[i].ask_volume],
             1..Len(candle.levels))

LevelsBid(candle) ==
    sum_over([i \in 1..Len(candle.levels) |-> candle.levels[i].bid_volume],
             1..Len(candle.levels))

LevelsTrades(candle) ==
    sum_over([i \in 1..Len(candle.levels) |-> candle.levels[i].trades],
             1..Len(candle.levels))

====
